---- MODULE Spec2Model ----
(***************************************************************************)
(* hero-js/core: the Router class (src/src/class/Router.ts).               *)
(*                                                                         *)
(* The process-wide route store, the process-wide preloader state, the     *)
(* Router instances with their per-instance preload cache, and the         *)
(* environment the code reads (Date.now(), process.cwd(), the directory    *)
(* scanner, require).  JavaScript strings are sequences of one-character   *)
(* strings, so that indexOf/substring/split/trim/RegExp are computed.      *)
(***************************************************************************)
EXTENDS Integers, Sequences, FiniteSets, TLC

VARIABLES
  routeStore,   \* Router.routeStore: base path -> route table (or absent)
  preloader,    \* Router.preloader: project, projectFiles, lastScan, cwd
  routers,      \* the Router instances constructed so far, in order
  now,          \* Date.now()
  cwd,          \* process.cwd()
  disk,         \* what Treegen.scanDir returns for each working directory
  lastCall,     \* the call just made: operation, arguments, outcome
  ledger,       \* per base path: handlers added since the table was created
  scanLog       \* per working directory: when a preload last scanned under it

vars == <<routeStore, preloader, routers, now, cwd, disk, lastCall, ledger, scanLog>>

(***************************************************************************)
(* Bounds of the exploration.                                              *)
(***************************************************************************)
MaxRouters == 2
MaxRoutes == 2
MaxHandlers == 3
MaxTicks == 3
MaxRefs == 2

(***************************************************************************)
(* JavaScript string primitives.                                           *)
(***************************************************************************)
Min(a, b) == IF a < b THEN a ELSE b
Max(a, b) == IF a > b THEN a ELSE b

\* s.indexOf(c): 0-based index of the first c, -1 when there is none
IndexOf(s, c) ==
  IF \E k \in 1..Len(s) : s[k] = c
    THEN (CHOOSE k \in 1..Len(s) : s[k] = c /\ \A j \in 1..(k - 1) : s[j] # c) - 1
    ELSE -1

\* s.lastIndexOf(c)
LastIndexOf(s, c) ==
  IF \E k \in 1..Len(s) : s[k] = c
    THEN (CHOOSE k \in 1..Len(s) : s[k] = c /\ \A j \in (k + 1)..Len(s) : s[j] # c) - 1
    ELSE -1

\* s.substring(a, b): arguments clamped to 0..length and swapped when a > b
Substring(s, a, b) ==
  LET ca == Max(0, Min(a, Len(s)))
      cb == Max(0, Min(b, Len(s)))
      lo == Min(ca, cb)
      hi == Max(ca, cb)
  IN  SubSeq(s, lo + 1, hi)

\* s.substring(a)
SubstringFrom(s, a) == Substring(s, a, Len(s))

\* s.trim(): blank, tab and line feed are the white space of the alphabet
WhiteSpace == {" ", "\t", "\n"}
RECURSIVE TrimStart(_)
TrimStart(s) == IF s # <<>> /\ Head(s) \in WhiteSpace THEN TrimStart(Tail(s)) ELSE s
RECURSIVE TrimEnd(_)
TrimEnd(s) ==
  IF s # <<>> /\ s[Len(s)] \in WhiteSpace THEN TrimEnd(SubSeq(s, 1, Len(s) - 1)) ELSE s

\* a trim that strips the front only
TrimFront(s) == TrimStart(s)

Trim(s) == TrimEnd(TrimStart(s))

\* s.split(c): always at least one piece
RECURSIVE Split(_, _)
Split(s, c) ==
  LET i == IndexOf(s, c)
  IN  IF i = -1 THEN <<s>>
      ELSE <<SubSeq(s, 1, i)>> \o Split(SubSeq(s, i + 2, Len(s)), c)

\* s.replaceAll(a, b) for one-character a and b
ReplaceAll(s, a, b) == [k \in 1..Len(s) |-> IF s[k] = a THEN b ELSE s[k]]

\* c.toUpperCase() for one character
ToUpperCase(c) ==
  CASE c = "c" -> "C"
    [] c = "d" -> "D"
    [] c = "o" -> "O"
    [] c = "x" -> "X"
    [] OTHER -> c

RECURSIVE Flatten(_)
Flatten(ss) == IF ss = <<>> THEN <<>> ELSE Head(ss) \o Flatten(Tail(ss))

RECURSIVE SumLen(_)
SumLen(ss) == IF ss = <<>> THEN 0 ELSE Len(Head(ss)) + SumLen(Tail(ss))

(***************************************************************************)
(* Handlers: RequestHandler is a function or a string; null/undefined and  *)
(* the empty string are the falsy values a caller can pass.                *)
(***************************************************************************)
Fn(n) == [t |-> "function", id |-> n, s |-> <<>>]
Str(s) == [t |-> "string", id |-> 0, s |-> s]
Nil == [t |-> "undefined", id |-> 0, s |-> <<>>]

\* the truthiness test of handlers.filter((handler) => handler)
Truthy(h) == h.t = "function" \/ (h.t = "string" /\ h.s # <<>>)

FilterTruthy(hs) == SelectSeq(hs, Truthy)

(***************************************************************************)
(* HTTP_METHOD and route keys.                                             *)
(***************************************************************************)
HTTP_USE == <<"u", "s", "e">>
HTTP_GET == <<"g", "e", "t">>
HTTP_POST == <<"p", "o", "s", "t">>
HTTP_PUT == <<"p", "u", "t">>
HTTP_PATCH == <<"p", "a", "t", "c", "h">>
HTTP_DELETE == <<"d", "e", "l", "e", "t", "e">>

AllowedMethod == {HTTP_USE, HTTP_GET, HTTP_POST, HTTP_PUT, HTTP_PATCH, HTTP_DELETE}

\* a key with the path in front
RouteKeyPathFirst(method, path) == path \o <<":", ":">> \o method

\* `${method}::${path}`
RouteKey(method, path) == method \o <<":", ":">> \o path

\* lastMountedRouteKey before any registration (undefined)
NoKey == <<>>

(***************************************************************************)
(* Route tables: a Map keeps insertion order, so a table is a sequence of  *)
(* [key, method, middlewares].                                             *)
(***************************************************************************)
NoTable == [present |-> FALSE, routes |-> <<>>]
NewMap == [present |-> TRUE, routes |-> <<>>]

\* table.get(key): 0 when absent, else the position of the entry
Pos(routes, key) ==
  IF \E k \in 1..Len(routes) : routes[k].key = key
    THEN CHOOSE k \in 1..Len(routes) : routes[k].key = key
    ELSE 0

HasKey(routes, key) == Pos(routes, key) # 0

\* the chain stored under key, the empty chain when the key is absent
Chain(routes, key) ==
  IF HasKey(routes, key) THEN routes[Pos(routes, key)].middlewares ELSE <<>>

Keys(routes) == {routes[k].key : k \in 1..Len(routes)}

\* the getter `routes` of a router with this base path
RoutesOf(store, basePath) == store[basePath].routes

(***************************************************************************)
(* The environment: working directories, what the scanner can report, and  *)
(* the modules require() finds.                                            *)
(***************************************************************************)
CwdP == <<"/", "p">>
CwdQ == <<"/", "q">>
Cwds == {CwdP, CwdQ}

\* outputs of Treegen.scanDir: lines separated by "\n", segments by ">"
ProjEmpty == <<>>
ProjC == <<"r", ">", "C", ".", "j", "s">>
ProjCD == <<"r", ">", "C", ".", "j", "s", "\n", "r", ">", "D", ".", "t", "s">>
ProjNear == <<"r", ">", "C", "x", "j", "s">>
Projects == {ProjEmpty, ProjC, ProjCD, ProjNear}
ProjCo == <<"r", ">", "C", ".", "o", ".", "j", "s">>
ProjDeep == <<"r", ">", "s", ">", "C", ".", "j", "s">>

\* string handler references used by callers
RefC == <<"C", ".", "o">>
RefD == <<"D">>
RefH == <<"C", ".", "h">>
RefX == <<"C", ".", "o", ".", "x">>

\* classes: an identity and the method names on the prototype; null is id 0
NullClass == [id |-> 0, proto |-> {}]
ClassC == [id |-> 1, proto |-> {<<"o">>}]
ClassD == [id |-> 2, proto |-> {<<"h", "a", "n", "d", "l", "e">>}]
ClassQ == [id |-> 3, proto |-> {<<"h", "a", "n", "d", "l", "e">>}]

NoModule == [exists |-> FALSE, default |-> NullClass, named |-> {}]

\* require(fullPath): the module namespace (default export, named exports)
ModuleAt(fullPath) ==
  CASE fullPath = <<"/", "p", "/", "C", ".", "j", "s">> ->
         [exists |-> TRUE, default |-> NullClass, named |-> {<<<<"C">>, ClassC>>}]
    [] fullPath = <<"/", "p", "/", "D", ".", "t", "s">> ->
         [exists |-> TRUE, default |-> ClassD, named |-> {<<<<"D">>, ClassQ>>}]
    [] fullPath = <<"/", "p", "/", "C", "x", "j", "s">> ->
         [exists |-> TRUE, default |-> NullClass, named |-> {<<<<"c">>, ClassQ>>}]
    [] fullPath = <<"/", "p", "/", "C", ".", "o", ".", "j", "s">> ->
         [exists |-> TRUE, default |-> NullClass, named |-> {<<<<"C">>, ClassC>>}]
    [] fullPath = <<"/", "q", "/", "C", ".", "j", "s">> ->
         [exists |-> TRUE, default |-> ClassQ, named |-> {}]
    [] OTHER -> NoModule

\* loadedMiddleware[middlewareClassName]
NamedExport(module, name) ==
  IF \E e \in module.named : e[1] = name
    THEN (CHOOSE e \in module.named : e[1] = name)[2]
    ELSE NullClass

\* path.join(a, b): concatenation with the doubled separator collapsed
RECURSIVE Normalize(_)
Normalize(s) ==
  IF Len(s) < 2 THEN s
  ELSE IF s[1] = "/" /\ s[2] = "/" THEN Normalize(Tail(s))
  ELSE <<s[1]>> \o Normalize(Tail(s))

PathJoin(a, b) == Normalize(a \o <<"/">> \o b)

(***************************************************************************)
(* Outcomes of a call: "ok", or the error thrown.                          *)
(***************************************************************************)
OK == "ok"
UnresolvedReferenceError == "UnresolvedReferenceError"
ModuleNotFoundError == "ModuleNotFoundError"
ClassLoadError == "ClassLoadError"
MissingHandlerMethodError == "MissingHandlerMethodError"
RequireError == "RequireError"
TypeError == "TypeError"

(***************************************************************************)
(* Router.middlewareClassName, Router.loadClass                            *)
(***************************************************************************)
\* the class token: everything before the first ".", or the whole string
ClassToken(middleware) ==
  LET t == Substring(middleware, 0, IndexOf(middleware, "."))
  IN  IF t # <<>> THEN t ELSE middleware

\* middlewareClassName[0].toUpperCase() + middlewareClassName.substring(1);
\* on the empty string [0] is undefined and toUpperCase throws
middlewareClassName(middleware) ==
  LET t == ClassToken(middleware)
  IN  IF t = <<>> THEN <<>> ELSE <<ToUpperCase(t[1])>> \o SubstringFrom(t, 1)

\* a loader that takes the default export only
loadClassDefaultOnly(fullPath, className) ==
  LET loadedMiddleware == ModuleAt(fullPath)
  IN  IF ~loadedMiddleware.exists THEN [err |-> RequireError, cls |-> NullClass]
      ELSE IF loadedMiddleware.default = NullClass
        THEN [err |-> ClassLoadError, cls |-> NullClass]
      ELSE [err |-> OK, cls |-> loadedMiddleware.default]

\* a loader that looks for the export named after the class first
loadClassNamedFirst(fullPath, className) ==
  LET loadedMiddleware == ModuleAt(fullPath)
      MiddlewareClass ==
        IF NamedExport(loadedMiddleware, className) # NullClass
          THEN NamedExport(loadedMiddleware, className)
          ELSE loadedMiddleware.default
  IN  IF ~loadedMiddleware.exists THEN [err |-> RequireError, cls |-> NullClass]
      ELSE IF MiddlewareClass = NullClass THEN [err |-> ClassLoadError, cls |-> NullClass]
      ELSE [err |-> OK, cls |-> MiddlewareClass]

loadClass(fullPath, className) ==
  LET loadedMiddleware == ModuleAt(fullPath)
      MiddlewareClass ==
        IF loadedMiddleware.default # NullClass
          THEN loadedMiddleware.default
          ELSE NamedExport(loadedMiddleware, className)
  IN  IF ~loadedMiddleware.exists THEN [err |-> RequireError, cls |-> NullClass]
      ELSE IF MiddlewareClass = NullClass THEN [err |-> ClassLoadError, cls |-> NullClass]
      ELSE [err |-> OK, cls |-> MiddlewareClass]

(***************************************************************************)
(* The preload cache of one router (preloadedHandler): a Map from the      *)
(* handler string to its settings, here the set of its entries.            *)
(***************************************************************************)
Has(cache, middleware) == \E e \in cache : e.ref = middleware

Entry(cache, middleware) == CHOOSE e \in cache : e.ref = middleware

\* Map.set
MapSet(cache, entry) == {e \in cache : e.ref # entry.ref} \cup {entry}

(***************************************************************************)
(* Router.preloadMiddleware                                                *)
(***************************************************************************)
\* one character of the pattern built from the file name: "." is not
\* escaped, so it matches any character; the others stand for themselves
PatternChar(p, c) == p = "." \/ p = c

\* new RegExp(`.*\/${middlewareFileName}(\.ts|\.js)$`).test(file): in the
\* template literal "\/" is "/" and "\." is ".", so the pattern is
\* .*/<name>(.ts|.js)$ with an unescaped dot before the extension
RegExpTest(middlewareFileName, file) ==
  \E i \in 1..Len(file) :
    /\ file[i] = "/"
    /\ LET rest == SubSeq(file, i + 1, Len(file))
           n == Len(middlewareFileName)
       IN  /\ Len(rest) = n + 3
           /\ \A k \in 1..n : PatternChar(middlewareFileName[k], rest[k])
           /\ SubSeq(rest, n + 2, n + 3) \in {<<"t", "s">>, <<"j", "s">>}

\* middleware.substring(0, middleware.lastIndexOf('.')) || middleware
MiddlewareFileName(middleware) ==
  LET t == Substring(middleware, 0, LastIndexOf(middleware, "."))
  IN  IF t # <<>> THEN t ELSE middleware

\* projectFiles.find(...): the position of the first match, 0 when none
FindFile(middlewareFileName, projectFiles) ==
  IF \E k \in 1..Len(projectFiles) : RegExpTest(middlewareFileName, projectFiles[k])
    THEN CHOOSE k \in 1..Len(projectFiles) :
           /\ RegExpTest(middlewareFileName, projectFiles[k])
           /\ \A j \in 1..(k - 1) : ~RegExpTest(middlewareFileName, projectFiles[j])
    ELSE 0

\* the working directory joined with the whole relative path
FullPathWhole(dir, relativePath) == PathJoin(dir, relativePath)

\* path.join(process.cwd(), relativePath.substring(relativePath.indexOf('/')))
FullPath(dir, relativePath) ==
  PathJoin(dir, SubstringFrom(relativePath, IndexOf(relativePath, "/")))

\* settings that never hold the class, whatever the mode
StoreSettingsLazy(cache, fullPreload, middleware, fullPath, className, loaded) ==
  IF middleware = <<>> THEN [err |-> TypeError, cache |-> cache, loads |-> FALSE]
  ELSE IF fullPreload /\ loaded.err # OK
    THEN [err |-> loaded.err, cache |-> cache, loads |-> TRUE]
  ELSE [err |-> OK, loads |-> fullPreload,
        cache |-> MapSet(cache, [ref |-> middleware, fullPath |-> fullPath,
                                 middlewareClassName |-> className,
                                 MiddlewareClass |-> NullClass])]

\* settings stored before the class is loaded: they stay when the load of
\* the eager mode fails
StoreSettingsBeforeLoad(cache, fullPreload, middleware, fullPath, className, loaded) ==
  IF middleware = <<>> THEN [err |-> TypeError, cache |-> cache, loads |-> FALSE]
  ELSE [err |-> IF fullPreload THEN loaded.err ELSE OK, loads |-> fullPreload,
        cache |-> MapSet(cache, [ref |-> middleware, fullPath |-> fullPath,
                                 middlewareClassName |-> className,
                                 MiddlewareClass |-> IF fullPreload THEN loaded.cls
                                                     ELSE NullClass])]

\* the settings stored for a located module, or the error of the class load
\* (in eager mode) that keeps them from being stored
StoreSettings(cache, fullPreload, middleware, fullPath, className, loaded) ==
  IF middleware = <<>> THEN [err |-> TypeError, cache |-> cache, loads |-> FALSE]
  ELSE IF fullPreload /\ loaded.err # OK
    THEN [err |-> loaded.err, cache |-> cache, loads |-> TRUE]
  ELSE [err |-> OK, loads |-> fullPreload,
        cache |-> MapSet(cache, [ref |-> middleware, fullPath |-> fullPath,
                                 middlewareClassName |-> className,
                                 MiddlewareClass |-> IF fullPreload THEN loaded.cls
                                                     ELSE NullClass])]

LoadSettings(cache, fullPreload, middleware, fullPath, className) ==
  StoreSettings(cache, fullPreload, middleware, fullPath, className,
                loadClass(fullPath, className))

\* a preloadMiddleware that looks a cached reference up again
preloadMiddlewareAgain(cache, fullPreload, middleware, projectFiles, dir) ==
  LET found == FindFile(MiddlewareFileName(middleware), projectFiles)
  IN  IF found = 0
        THEN [err |-> ModuleNotFoundError, cache |-> cache, loads |-> FALSE]
      ELSE LoadSettings(cache, fullPreload, middleware,
                        FullPath(dir, projectFiles[found]),
                        middlewareClassName(middleware))

\* the cache after the call, the error thrown, if any, and whether the
\* call invoked loadClass
preloadMiddleware(cache, fullPreload, middleware, projectFiles, dir) ==
  LET found == FindFile(MiddlewareFileName(middleware), projectFiles)
  IN  IF Has(cache, middleware) THEN [err |-> OK, cache |-> cache, loads |-> FALSE]
      ELSE IF found = 0
        THEN [err |-> ModuleNotFoundError, cache |-> cache, loads |-> FALSE]
      ELSE LoadSettings(cache, fullPreload, middleware,
                        FullPath(dir, projectFiles[found]),
                        middlewareClassName(middleware))

(***************************************************************************)
(* Router.preload                                                          *)
(***************************************************************************)
TTL == 60000

\* a staleness test that already fires when exactly the interval has passed
StaleAtTTL(pre, time, dir) == time - pre.lastScan >= TTL \/ pre.cwd # dir

\* the staleness test of the preloader state
Stale(pre, time, dir) == time - pre.lastScan > TTL \/ pre.cwd # dir

\* project.split('\n').map((line) => line.replaceAll('>', '/'))
ProjectFiles(project) ==
  LET lines == Split(project, "\n")
  IN  [k \in 1..Len(lines) |-> ReplaceAll(lines[k], ">", "/")]

\* a scan branch that does not record the working directory
RescanKeepsCwd(pre, time, dir, project) ==
  [lastScan |-> time,
   cwd |-> pre.cwd,
   project |-> project,
   projectFiles |-> IF pre.project # project THEN ProjectFiles(project)
                    ELSE pre.projectFiles]

\* a scan branch that never replaces the listing
RescanKeepsListing(pre, time, dir, project) ==
  [lastScan |-> time,
   cwd |-> dir,
   project |-> project,
   projectFiles |-> pre.projectFiles]

\* the preloader state after the scan branch
Rescan(pre, time, dir, project) ==
  [lastScan |-> time,
   cwd |-> dir,
   project |-> project,
   projectFiles |-> IF pre.project # project THEN ProjectFiles(project)
                    ELSE pre.projectFiles]

\* loops that visit the first route only
StringRefsFirst(routes) ==
  IF routes = <<>> THEN <<>>
  ELSE LET strs == SelectSeq(Head(routes).middlewares, LAMBDA h : h.t = "string")
       IN  [k \in 1..Len(strs) |-> strs[k].s]

\* the string handlers of a table, in the order the loops visit them
RECURSIVE StringRefs(_)
StringRefs(routes) ==
  IF routes = <<>> THEN <<>>
  ELSE LET strs == SelectSeq(Head(routes).middlewares, LAMBDA h : h.t = "string")
       IN  [k \in 1..Len(strs) |-> strs[k].s] \o StringRefs(Tail(routes))

\* the references a call of preloadMiddleware invoked loadClass for
Loads(one, middleware) == IF one.loads THEN <<middleware>> ELSE <<>>

\* the loops over the routes: stop at the first error; loads lists, in
\* order, the references loadClass was invoked for
RECURSIVE PreloadAll(_, _, _, _, _, _)
RECURSIVE PreloadRest(_, _, _, _, _, _)
PreloadRest(one, fullPreload, refs, projectFiles, dir, loads) ==
  IF one.err # OK
    THEN [err |-> one.err, cache |-> one.cache, ref |-> Head(refs), loads |-> loads]
    ELSE PreloadAll(one.cache, fullPreload, Tail(refs), projectFiles, dir, loads)

PreloadOne(one, fullPreload, refs, projectFiles, dir, loads) ==
  PreloadRest(one, fullPreload, refs, projectFiles, dir, loads \o Loads(one, Head(refs)))

PreloadAll(cache, fullPreload, refs, projectFiles, dir, loads) ==
  IF refs = <<>> THEN [err |-> OK, cache |-> cache, ref |-> <<>>, loads |-> loads]
  ELSE PreloadOne(preloadMiddleware(cache, fullPreload, Head(refs), projectFiles, dir),
                  fullPreload, refs, projectFiles, dir, loads)

\* a preload that drops the entries of the router when it scans
preloadForgets(r, store, pre, time, dir, project) ==
  LET scanned == Stale(pre, time, dir)
      pre2 == IF scanned THEN Rescan(pre, time, dir, project) ELSE pre
      all == PreloadAll(IF scanned THEN {} ELSE r.preloadedHandler, r.fullPreload,
                        StringRefs(RoutesOf(store, r.basePath)), pre2.projectFiles, dir,
                        <<>>)
  IN  [preloader |-> pre2, cache |-> all.cache, err |-> all.err, ref |-> all.ref,
       scanned |-> scanned, loads |-> all.loads]

\* preload() of router r: the preloader state and the cache it leaves, the
\* error it throws, whether it scanned
preload(r, store, pre, time, dir, project) ==
  LET scanned == Stale(pre, time, dir)
      pre2 == IF scanned THEN Rescan(pre, time, dir, project) ELSE pre
      all == PreloadAll(r.preloadedHandler, r.fullPreload,
                        StringRefs(RoutesOf(store, r.basePath)), pre2.projectFiles, dir,
                        <<>>)
  IN  [preloader |-> pre2, cache |-> all.cache, err |-> all.err, ref |-> all.ref,
       scanned |-> scanned, loads |-> all.loads]

(***************************************************************************)
(* Router.resolver                                                         *)
(***************************************************************************)
HANDLE == <<"h", "a", "n", "d", "l", "e">>

\* a method name that is everything after the first "."
HandlerNameRest(middleware) ==
  IF IndexOf(middleware, ".") = -1 THEN HANDLE
  ELSE SubstringFrom(middleware, IndexOf(middleware, ".") + 1)

\* const [, handler = 'handle'] = middleware.split('.')
HandlerName(middleware) ==
  LET parts == Split(middleware, ".")
  IN  IF Len(parts) >= 2 THEN parts[2] ELSE HANDLE

\* a resolver that loads the class on every call, cached or not
resolverReloads(cache, middleware) ==
  LET settings == Entry(cache, middleware)
      handler == HandlerName(middleware)
      loaded == loadClass(settings.fullPath, middlewareClassName(middleware))
      cache2 == MapSet(cache, [settings EXCEPT !.MiddlewareClass = loaded.cls])
  IN  IF ~Has(cache, middleware)
        THEN [err |-> UnresolvedReferenceError, cache |-> cache,
              cls |-> NullClass, handler |-> <<>>, loads |-> FALSE]
      ELSE IF loaded.err # OK
        THEN [err |-> loaded.err, cache |-> cache, cls |-> NullClass, handler |-> <<>>,
              loads |-> TRUE]
      ELSE IF handler \notin loaded.cls.proto
        THEN [err |-> MissingHandlerMethodError, cache |-> cache2,
              cls |-> NullClass, handler |-> <<>>, loads |-> TRUE]
      ELSE [err |-> OK, cache |-> cache2, cls |-> loaded.cls, handler |-> handler,
            loads |-> TRUE]

\* resolver(middleware) on a string: the cache it leaves, the error it
\* throws, the class and method name it returns, whether it invoked
\* loadClass
resolver(cache, middleware) ==
  LET settings == Entry(cache, middleware)
      handler == HandlerName(middleware)
      className == middlewareClassName(middleware)
      loaded == IF settings.MiddlewareClass = NullClass
                  THEN loadClass(settings.fullPath, className)
                  ELSE [err |-> OK, cls |-> settings.MiddlewareClass]
      cache2 == MapSet(cache, [settings EXCEPT !.MiddlewareClass = loaded.cls])
      loads == settings.MiddlewareClass = NullClass
  IN  IF ~Has(cache, middleware)
        THEN [err |-> UnresolvedReferenceError, cache |-> cache,
              cls |-> NullClass, handler |-> <<>>, loads |-> FALSE]
      ELSE IF loaded.err # OK
        THEN [err |-> loaded.err, cache |-> cache, cls |-> NullClass, handler |-> <<>>,
              loads |-> loads]
      ELSE IF handler \notin loaded.cls.proto
        THEN [err |-> MissingHandlerMethodError, cache |-> cache2,
              cls |-> NullClass, handler |-> <<>>, loads |-> loads]
      ELSE [err |-> OK, cache |-> cache2, cls |-> loaded.cls, handler |-> handler,
            loads |-> loads]

(***************************************************************************)
(* Records of the state.                                                   *)
(***************************************************************************)
BasePathRoot == <<"/">>
BasePathX == <<"/", "x">>
BasePaths == {BasePathRoot, BasePathX}

\* a Router instance right after its constructor
NewRouter(basePath, fullPreload) ==
  [basePath |-> basePath, fullPreload |-> fullPreload,
   lastMountedRouteKey |-> NoKey, preloadedHandler |-> {}]

\* the call record: what was called last, on which router, and what came of
\* it (the value returned or the error thrown)
NoCall ==
  [op |-> "none", r |-> 0, ret |-> OK, reg |-> NoKey, cls |-> NullClass,
   method |-> <<>>, ref |-> <<>>, scanned |-> FALSE, warned |-> FALSE,
   retryOf |-> <<>>, loads |-> <<>>]

\* a step that is a call on the Router API (the environment stands still)
ApiStep == UNCHANGED <<now, cwd, disk>>

\* the ledger of one base path: the router whose construction created the
\* table, whether another router has called into it since, and, position
\* by position, the handlers the owner's calls added
NoLedger == [owner |-> 0, foreign |-> FALSE, counts |-> <<>>]

Foreign(led) == [led EXCEPT !.foreign = TRUE, !.counts = <<>>]

\* n handlers added to the route at position p (a new route when p = 0)
Credit(led, i, p, n) ==
  IF led.owner # i \/ led.foreign THEN Foreign(led)
  ELSE IF p = 0 THEN [led EXCEPT !.counts = Append(@, n)]
  ELSE [led EXCEPT !.counts[p] = @ + n]

\* scanLog of a working directory under which no preload has scanned yet
NoScan == -1

\* the ledger after router i is constructed: it owns the table when its
\* constructor stored a new one
ConstructLedger(led, i, created) ==
  IF created THEN [owner |-> i, foreign |-> FALSE, counts |-> <<>>] ELSE led

(***************************************************************************)
(* Size of the state, for the bounds.                                      *)
(***************************************************************************)
RECURSIVE ChainTotal(_)
ChainTotal(routes) ==
  IF routes = <<>> THEN 0 ELSE Len(Head(routes).middlewares) + ChainTotal(Tail(routes))

Handlers(store) ==
  ChainTotal(store[BasePathRoot].routes) + ChainTotal(store[BasePathX].routes)

Routes(store) == Len(store[BasePathRoot].routes) + Len(store[BasePathX].routes)

WithinBounds(store) == Routes(store) <= MaxRoutes /\ Handlers(store) <= MaxHandlers

(***************************************************************************)
(* Init: the static fields as the class body sets them, no instance yet.   *)
(***************************************************************************)
StartTime == 2 * TTL

TypeOK ==
  /\ DOMAIN routeStore = BasePaths
  /\ Len(routers) <= MaxRouters
  /\ cwd \in Cwds
  /\ now >= StartTime

InitWith(projects) ==
  /\ routeStore = [b \in BasePaths |-> NoTable]
  /\ cwd = CwdP
  /\ preloader = [project |-> <<>>, projectFiles |-> <<>>, lastScan |-> 0, cwd |-> CwdP]
  /\ routers = <<>>
  /\ now = StartTime
  /\ disk \in [Cwds -> projects]
  /\ lastCall = NoCall
  /\ ledger = [b \in BasePaths |-> NoLedger]
  /\ scanLog = [d \in Cwds |-> NoScan]

(***************************************************************************)
(* Router.constructor, Router.create                                       *)
(***************************************************************************)
\* the constructor as its documentation describes it: the table is replaced
\* only on request
ConstructStoreDocumented(store, basePath, overwriteExisting) ==
  IF ~store[basePath].present \/ overwriteExisting
    THEN [store EXCEPT ![basePath] = NewMap]
    ELSE store

\* a constructor that stores a new registry holding only its own table
ConstructStoreAlone(store, basePath, overwriteExisting) ==
  [b \in DOMAIN store |-> IF b = basePath THEN NewMap ELSE NoTable]

\* the route store the constructor leaves
ConstructStore(store, basePath, overwriteExisting) ==
  IF ~store[basePath].present \/ ~overwriteExisting
    THEN [store EXCEPT ![basePath] = NewMap]
    ELSE store

Construct(basePath, fullPreload, overwriteExisting) ==
  /\ Len(routers) < MaxRouters
  /\ routeStore' = ConstructStore(routeStore, basePath, overwriteExisting)
  /\ routers' = Append(routers, NewRouter(basePath, fullPreload))
  /\ ledger' = [ledger EXCEPT ![basePath] =
                  ConstructLedger(@, Len(routers) + 1,
                                  ~routeStore[basePath].present \/ ~overwriteExisting)]
  /\ lastCall' = [NoCall EXCEPT !.op = "new", !.r = Len(routers) + 1,
                    !.warned = routeStore[basePath].present /\ ~overwriteExisting]
  /\ UNCHANGED <<preloader, now, cwd, disk, scanLog>>

\* Router.create(basePath): new Router({ basePath })
Create(basePath) == Construct(basePath, FALSE, FALSE)

(***************************************************************************)
(* Router.mountRoutes and the registration methods                         *)
(***************************************************************************)
\* a registration that stores the new handlers in place of the chain
mountRoutesOverwrite(routes, method, path, handlers) ==
  LET key == RouteKey(method, path)
      kept == FilterTruthy(handlers)
      p == Pos(routes, key)
  IN  IF p # 0 THEN [routes EXCEPT ![p].middlewares = kept]
      ELSE Append(routes, [key |-> key, method |-> method, middlewares |-> kept])

\* a registration that stores no entry when no handler remains
mountRoutesSkipEmpty(routes, method, path, handlers) ==
  LET key == RouteKey(method, path)
      kept == FilterTruthy(handlers)
      p == Pos(routes, key)
  IN  IF p # 0 THEN [routes EXCEPT ![p].middlewares = @ \o kept]
      ELSE IF kept = <<>> THEN routes
      ELSE Append(routes, [key |-> key, method |-> method, middlewares |-> kept])

\* the table after mountRoutes(method, path, ...handlers)
mountRoutes(routes, method, path, handlers) ==
  LET key == RouteKey(method, path)
      kept == FilterTruthy(handlers)
      p == Pos(routes, key)
  IN  IF p # 0 THEN [routes EXCEPT ![p].middlewares = @ \o kept]
      ELSE Append(routes, [key |-> key, method |-> method, middlewares |-> kept])

\* a registration call of router i, after the method chose path and handlers
Mount(i, op, method, path, handlers) ==
  LET r == routers[i]
      b == r.basePath
      key == RouteKey(method, path)
  IN  /\ routeStore' = [routeStore EXCEPT ![b].routes = mountRoutes(@, method, path, handlers)]
      /\ WithinBounds(routeStore')
      /\ routers' = [routers EXCEPT ![i].lastMountedRouteKey = key]
      /\ ledger' = [ledger EXCEPT ![b] =
                      Credit(@, i, Pos(RoutesOf(routeStore, b), key),
                             Len(FilterTruthy(handlers)))]
      /\ lastCall' = [NoCall EXCEPT !.op = op, !.r = i, !.reg = key]
      /\ UNCHANGED <<preloader, now, cwd, disk, scanLog>>

\* a use() that takes a first argument starting with "/" as the path even
\* when it is the only argument
UsePathSingle(handlers) ==
  IF Len(handlers) > 0 /\ handlers[1].t = "string" /\ handlers[1].s # <<>>
     /\ handlers[1].s[1] = "/"
    THEN handlers[1].s ELSE <<"*">>

\* use(...handlers): the path is the first argument when there are several
\* and the first is a string starting with "/"
UsePath(handlers) ==
  IF Len(handlers) > 1 /\ handlers[1].t = "string" /\ handlers[1].s # <<>>
     /\ handlers[1].s[1] = "/"
    THEN handlers[1].s ELSE <<"*">>

UseHandlers(handlers) ==
  IF Len(handlers) > 1 /\ handlers[1].t = "string" /\ handlers[1].s # <<>>
     /\ handlers[1].s[1] = "/"
    THEN Tail(handlers) ELSE handlers

Use(i, handlers) ==
  Mount(i, "use", HTTP_USE, UsePath(handlers), UseHandlers(handlers))

Post(i, path, handlers) == Mount(i, "post", HTTP_POST, Trim(path), handlers)

Get(i, path, handlers) == Mount(i, "get", HTTP_GET, Trim(path), handlers)

Put(i, path, handlers) == Mount(i, "put", HTTP_PUT, Trim(path), handlers)

Patch(i, path, handlers) == Mount(i, "patch", HTTP_PATCH, Trim(path), handlers)

Delete(i, path, handlers) == Mount(i, "delete", HTTP_DELETE, Trim(path), handlers)

(***************************************************************************)
(* Router.middleware, Router.batchMiddlewares                              *)
(***************************************************************************)
\* a splice that puts the middlewares in place of the first handler
UnshiftOverFirst(routes, key, middlewares) ==
  LET p == Pos(routes, key)
  IN  IF p = 0 THEN routes
      ELSE [routes EXCEPT ![p].middlewares =
              middlewares \o (IF @ = <<>> THEN <<>> ELSE Tail(@))]

\* route?.middlewares.unshift(...middlewares)
Unshift(routes, key, middlewares) ==
  LET p == Pos(routes, key)
  IN  IF p = 0 THEN routes ELSE [routes EXCEPT ![p].middlewares = middlewares \o @]

\* a middleware() that, lacking a registration of its own router, falls back
\* to the route stored last in the table
middlewareLastStored(routes, lastMountedRouteKey, middlewares) ==
  IF lastMountedRouteKey # NoKey THEN Unshift(routes, lastMountedRouteKey, middlewares)
  ELSE IF routes = <<>> THEN routes
  ELSE Unshift(routes, routes[Len(routes)].key, middlewares)

\* the table middleware(middlewares) leaves
middleware(routes, lastMountedRouteKey, middlewares) ==
  IF lastMountedRouteKey # NoKey THEN Unshift(routes, lastMountedRouteKey, middlewares)
  ELSE routes

Middleware(i, middlewares) ==
  LET r == routers[i]
      b == r.basePath
      p == Pos(RoutesOf(routeStore, b), r.lastMountedRouteKey)
  IN  /\ routeStore' = [routeStore EXCEPT ![b].routes =
                          middleware(@, r.lastMountedRouteKey, middlewares)]
      /\ WithinBounds(routeStore')
      /\ ledger' = [ledger EXCEPT ![b] =
                      IF p = 0 /\ @.owner = i THEN @ ELSE Credit(@, i, p, Len(middlewares))]
      /\ lastCall' = [NoCall EXCEPT !.op = "middleware", !.r = i,
                        !.reg = r.lastMountedRouteKey]
      /\ UNCHANGED <<routers, preloader, now, cwd, disk, scanLog>>

\* a loop that visits every named key once, however often it is named
RECURSIVE batchMiddlewaresOnce(_, _, _)
batchMiddlewaresOnce(routes, middlewares, routeKeys) ==
  IF routeKeys = <<>> THEN routes
  ELSE batchMiddlewaresOnce(
         IF \E k \in 1..Len(Tail(routeKeys)) : Tail(routeKeys)[k] = Head(routeKeys)
           THEN routes ELSE Unshift(routes, Head(routeKeys), middlewares),
         middlewares, Tail(routeKeys))

\* the loop of the closure batchMiddlewares(middlewares) returns
RECURSIVE batchMiddlewares(_, _, _)
batchMiddlewares(routes, middlewares, routeKeys) ==
  IF routeKeys = <<>> THEN routes
  ELSE batchMiddlewares(Unshift(routes, Head(routeKeys), middlewares), middlewares,
                        Tail(routeKeys))

\* the owner's ledger over the same key list
RECURSIVE CreditBatch(_, _, _, _, _)
CreditBatch(led, i, routes, n, routeKeys) ==
  IF routeKeys = <<>> THEN led
  ELSE LET p == Pos(routes, Head(routeKeys))
       IN  CreditBatch(IF p = 0 /\ led.owner = i THEN led ELSE Credit(led, i, p, n),
                       i, routes, n, Tail(routeKeys))

BatchMiddlewares(i, middlewares, routeKeys) ==
  LET b == routers[i].basePath
  IN  /\ routeStore' = [routeStore EXCEPT ![b].routes =
                          batchMiddlewares(@, middlewares, routeKeys)]
      /\ WithinBounds(routeStore')
      /\ ledger' = [ledger EXCEPT ![b] =
                      CreditBatch(@, i, RoutesOf(routeStore, b), Len(middlewares), routeKeys)]
      /\ lastCall' = [NoCall EXCEPT !.op = "batchMiddlewares", !.r = i]
      /\ UNCHANGED <<routers, preloader, now, cwd, disk, scanLog>>

(***************************************************************************)
(* Router.preload (called directly, as the tests do), Router.getRoutes,    *)
(* and the resolver getRoutes hands out                                    *)
(***************************************************************************)
\* a preload whose cache is one per base path: the entries go to every
\* router of the base path
RunPreloadShared(i, op) ==
  LET pr == preload(routers[i], routeStore, preloader, now, cwd, disk[cwd])
  IN  /\ preloader' = pr.preloader
      /\ routers' = [j \in 1..Len(routers) |->
                       IF routers[j].basePath = routers[i].basePath
                         THEN [routers[j] EXCEPT !.preloadedHandler = pr.cache]
                         ELSE routers[j]]
      /\ scanLog' = IF pr.scanned THEN [scanLog EXCEPT ![cwd] = now] ELSE scanLog
      /\ lastCall' = [NoCall EXCEPT !.op = op, !.r = i, !.ret = pr.err, !.ref = pr.ref,
                        !.scanned = pr.scanned, !.loads = pr.loads]
      /\ UNCHANGED <<routeStore, now, cwd, disk, ledger>>

\* a preload that forgets the last mounted key of the router
RunPreloadUnmounts(i, op) ==
  LET pr == preload(routers[i], routeStore, preloader, now, cwd, disk[cwd])
  IN  /\ preloader' = pr.preloader
      /\ routers' = [routers EXCEPT ![i].preloadedHandler = pr.cache,
                                    ![i].lastMountedRouteKey = NoKey]
      /\ scanLog' = IF pr.scanned THEN [scanLog EXCEPT ![cwd] = now] ELSE scanLog
      /\ lastCall' = [NoCall EXCEPT !.op = op, !.r = i, !.ret = pr.err, !.ref = pr.ref,
                        !.scanned = pr.scanned, !.loads = pr.loads]
      /\ UNCHANGED <<routeStore, now, cwd, disk, ledger>>

\* what a run of preload() by router i does to the state
RunPreload(i, op) ==
  LET pr == preload(routers[i], routeStore, preloader, now, cwd, disk[cwd])
  IN  /\ preloader' = pr.preloader
      /\ routers' = [routers EXCEPT ![i].preloadedHandler = pr.cache]
      /\ scanLog' = IF pr.scanned THEN [scanLog EXCEPT ![cwd] = now] ELSE scanLog
      /\ lastCall' = [NoCall EXCEPT !.op = op, !.r = i, !.ret = pr.err, !.ref = pr.ref,
                        !.scanned = pr.scanned, !.loads = pr.loads,
                        !.retryOf = IF /\ lastCall.op \in {"preload", "getRoutes"}
                                       /\ lastCall.r = i
                                       /\ lastCall.ret = ModuleNotFoundError
                                      THEN lastCall.ref ELSE <<>>]
      /\ UNCHANGED <<routeStore, now, cwd, disk, ledger>>

Preload(i) == RunPreload(i, "preload")

\* getRoutes(): preload(), then { routes: this.routes, resolver }
GetRoutes(i) == RunPreload(i, "getRoutes")

\* a resolver call that starts with the scan branch of preload
ResolverScans(i, h) ==
  LET res == resolver(routers[i].preloadedHandler, h.s)
  IN  /\ routers' = IF h.t = "function" THEN routers
                    ELSE [routers EXCEPT ![i].preloadedHandler = res.cache]
      /\ preloader' = Rescan(preloader, now, cwd, disk[cwd])
      /\ lastCall' = IF h.t = "function"
                       THEN [NoCall EXCEPT !.op = "resolver", !.r = i]
                       ELSE [NoCall EXCEPT !.op = "resolver", !.r = i,
                               !.ret = res.err, !.cls = res.cls, !.method = res.handler,
                               !.ref = h.s, !.loads = Loads(res, h.s)]
      /\ UNCHANGED <<routeStore, now, cwd, disk, ledger, scanLog>>

Resolver(i, h) ==
  LET res == resolver(routers[i].preloadedHandler, h.s)
  IN  /\ routers' = IF h.t = "function" THEN routers
                    ELSE [routers EXCEPT ![i].preloadedHandler = res.cache]
      /\ lastCall' = IF h.t = "function"
                       THEN [NoCall EXCEPT !.op = "resolver", !.r = i]
                       ELSE [NoCall EXCEPT !.op = "resolver", !.r = i,
                               !.ret = res.err, !.cls = res.cls, !.method = res.handler,
                               !.ref = h.s, !.loads = Loads(res, h.s)]
      /\ UNCHANGED <<routeStore, preloader, now, cwd, disk, ledger, scanLog>>

(***************************************************************************)
(* The environment: the clock advances, the process changes directory,     *)
(* files are added to or removed from a project.                           *)
(***************************************************************************)
TickStep == TTL \div 2

Tick ==
  /\ now + TickStep <= StartTime + MaxTicks * TickStep
  /\ now' = now + TickStep
  /\ UNCHANGED <<routeStore, preloader, routers, cwd, disk, lastCall, ledger, scanLog>>

Chdir(d) ==
  /\ d # cwd
  /\ cwd' = d
  /\ UNCHANGED <<routeStore, preloader, routers, now, disk, lastCall, ledger, scanLog>>

FsChange(d, project) ==
  /\ disk[d] # project
  /\ disk' = [disk EXCEPT ![d] = project]
  /\ UNCHANGED <<routeStore, preloader, routers, now, cwd, lastCall, ledger, scanLog>>

(***************************************************************************)
(* Inputs of the registration API.                                         *)
(***************************************************************************)
Fn1 == Fn(1)
Fn2 == Fn(2)
Fn3 == Fn(3)
PathA == <<"/", "a">>
PathABlank == <<" ", "/", "a", " ">>
PathATab == <<"\t", "/", "a", "\n">>
STAR == <<"*">>

Paths == {PathA, PathABlank}
HandlerLists == {<<Fn1>>, <<Nil, Fn2>>}
UseLists == {<<Fn1>>, <<Fn2>>, <<Str(PathA), Fn1>>, <<Nil>>}
MiddlewareLists == {<<Fn3>>, <<Fn3, Fn2>>}
KeyUseStar == RouteKey(HTTP_USE, STAR)
KeyGetA == RouteKey(HTTP_GET, PathA)
KeyLists == {<<KeyUseStar>>, <<KeyUseStar, KeyGetA>>, <<KeyGetA, KeyGetA>>}

(***************************************************************************)
(* Specification of routers sharing the route store: routers are           *)
(* constructed on either base path, with and without overwriteExisting,    *)
(* and register, attach middleware and read the routes.  The environment   *)
(* stands still.                                                           *)
(***************************************************************************)
Init == InitWith({ProjC})

Next ==
  \/ \E b \in BasePaths, o \in BOOLEAN : Construct(b, FALSE, o)
  \/ \E i \in 1..Len(routers), hs \in {<<Fn1>>, <<Fn2>>} : Use(i, hs)
  \/ \E i \in 1..Len(routers), hs \in {<<Fn1>>, <<Str(RefC)>>} : Get(i, PathA, hs)
  \/ \E i \in 1..Len(routers) : Middleware(i, <<Fn3>>)
  \/ \E i \in 1..Len(routers), ks \in KeyLists : BatchMiddlewares(i, <<Fn3>>, ks)
  \/ \E i \in 1..Len(routers) : GetRoutes(i)

Spec == Init /\ [][Next]_vars

(***************************************************************************)
(* Specification of routers from Router.create(): every router is          *)
(* constructed with the options left at their defaults, on the default     *)
(* base path, so that all of them address the table of "/".                *)
(***************************************************************************)
NextCreate ==
  \/ Create(BasePathRoot)
  \/ \E i \in 1..Len(routers), hs \in {<<Fn1>>, <<Fn2>>} : Use(i, hs)
  \/ \E i \in 1..Len(routers) : Get(i, PathA, <<Fn1>>)
  \/ \E i \in 1..Len(routers) : Middleware(i, <<Fn3>>)
  \/ \E i \in 1..Len(routers) : BatchMiddlewares(i, <<Fn3>>, <<KeyUseStar, KeyGetA>>)
  \/ \E i \in 1..Len(routers) : GetRoutes(i)

SpecCreate == Init /\ [][NextCreate]_vars

(***************************************************************************)
(* Specification of the registration methods: one router from              *)
(* Router.create(), every registration method with blank-padded paths and  *)
(* falsy handlers, middleware and batchMiddlewares.                        *)
(***************************************************************************)
NextMethods ==
  \/ Len(routers) = 0 /\ Create(BasePathRoot)
  \/ \E i \in 1..Len(routers), hs \in UseLists : Use(i, hs)
  \/ \E i \in 1..Len(routers), p \in Paths, hs \in HandlerLists : Get(i, p, hs)
  \/ \E i \in 1..Len(routers), p \in Paths, hs \in HandlerLists : Post(i, p, hs)
  \/ \E i \in 1..Len(routers), hs \in HandlerLists : Put(i, PathA, hs)
  \/ \E i \in 1..Len(routers), hs \in HandlerLists : Patch(i, PathA, hs)
  \/ \E i \in 1..Len(routers), hs \in HandlerLists : Delete(i, PathA, hs)
  \/ \E i \in 1..Len(routers), ms \in MiddlewareLists : Middleware(i, ms)
  \/ \E i \in 1..Len(routers), ms \in MiddlewareLists, ks \in KeyLists :
       BatchMiddlewares(i, ms, ks)

SpecMethods == Init /\ [][NextMethods]_vars

(***************************************************************************)
(* Specification of the scan cache: routers on one base path call preload  *)
(* and getRoutes while the clock advances and the process changes          *)
(* directory.                                                              *)
(***************************************************************************)
InitScan ==
  /\ InitWith(Projects)
  /\ disk = [d \in Cwds |-> IF d = CwdP THEN ProjC ELSE ProjEmpty]

NextScan ==
  \/ Construct(BasePathRoot, FALSE, TRUE)
  \/ \E i \in 1..Len(routers) :
       Handlers(routeStore) = 0 /\ Get(i, PathA, <<Str(RefC)>>)
  \/ \E i \in 1..Len(routers) : Preload(i)
  \/ Tick
  \/ \E d \in Cwds : Chdir(d)

SpecScan == InitScan /\ [][NextScan]_vars

(***************************************************************************)
(* Specification of preloading and resolution: string references are       *)
(* registered with get, located by preload in the scanned listing, loaded  *)
(* eagerly or by the resolver, while the clock advances and files are      *)
(* added to and removed from the project.                                  *)
(***************************************************************************)
RefLists == {<<Str(RefC)>>, <<Str(RefD)>>}
Resolvables == {Str(RefC), Str(RefD), Fn1}

InitPreload == InitWith({ProjC})

NextPreload ==
  \/ \E f \in BOOLEAN : Len(routers) = 0 /\ Construct(BasePathRoot, f, FALSE)
  \/ \E i \in 1..Len(routers), hs \in RefLists :
       Handlers(routeStore) < MaxRefs /\ Get(i, PathA, hs)
  \/ \E i \in 1..Len(routers) : Preload(i)
  \/ \E i \in 1..Len(routers), h \in Resolvables : Resolver(i, h)
  \/ Tick
  \/ \E project \in Projects : FsChange(CwdP, project)

SpecPreload == InitPreload /\ [][NextPreload]_vars

(***************************************************************************)
(* Specification of the resolver: one router, lazy or eager, over a        *)
(* project that does not change; it registers string handlers, preloads    *)
(* directly or through getRoutes, and resolves.                            *)
(***************************************************************************)
ResolveRefLists == {<<Str(RefC)>>, <<Str(RefD)>>, <<Str(RefH)>>, <<Str(RefX)>>}
ResolveInputs == {Str(RefC), Str(RefD), Str(RefH), Str(RefX), Fn1}
ResolveProjects == Projects \cup {ProjCo}

InitResolve == InitWith(ResolveProjects) /\ disk[CwdQ] = ProjEmpty

NextResolve ==
  \/ \E f \in BOOLEAN : Len(routers) = 0 /\ Construct(BasePathRoot, f, FALSE)
  \/ \E i \in 1..Len(routers), hs \in ResolveRefLists :
       Handlers(routeStore) < MaxRefs /\ Get(i, PathA, hs)
  \/ \E i \in 1..Len(routers) : Preload(i)
  \/ \E i \in 1..Len(routers) : GetRoutes(i)
  \/ \E i \in 1..Len(routers), h \in ResolveInputs : Resolver(i, h)

SpecResolve == InitResolve /\ [][NextResolve]_vars

(***************************************************************************)
(* Specification of routers on two base paths: the first router is the one *)
(* of "/", the later ones are constructed on "/" or "/x" with              *)
(* overwriteExisting set, which keeps the table their base path has; they  *)
(* register a string handler with get, attach middleware, read the routes  *)
(* and resolve.                                                            *)
(***************************************************************************)
NextPaths ==
  \/ \E b \in BasePaths :
       (Len(routers) = 0 => b = BasePathRoot) /\ Construct(b, FALSE, TRUE)
  \/ \E i \in 1..Len(routers) :
       Handlers(routeStore) < MaxRefs /\ Get(i, PathA, <<Str(RefC)>>)
  \/ \E i \in 1..Len(routers) : Middleware(i, <<Fn3>>)
  \/ \E i \in 1..Len(routers) : BatchMiddlewares(i, <<Fn3>>, <<KeyGetA>>)
  \/ \E i \in 1..Len(routers) : GetRoutes(i)
  \/ \E i \in 1..Len(routers) : Resolver(i, Str(RefC))

SpecPaths == Init /\ [][NextPaths]_vars

(***************************************************************************)
(* Specification of use(): one router from Router.create() calls use with  *)
(* one or several arguments, the first a function, a path, a string that   *)
(* is no path, or a falsy value.                                           *)
(***************************************************************************)
UseInputs ==
  {<<Fn1>>, <<Str(PathA)>>, <<Str(PathA), Fn1>>, <<Str(PathA), Nil>>,
   <<Str(RefC), Fn1>>, <<Fn2, Str(PathA)>>, <<Nil, Fn2>>, <<Str(<<>>), Fn1>>}

NextUse ==
  \/ Len(routers) = 0 /\ Create(BasePathRoot)
  \/ \E i \in 1..Len(routers), hs \in UseInputs : Use(i, hs)

SpecUse == Init /\ [][NextUse]_vars

(***************************************************************************)
(* Specification of the last mounted key: one router from Router.create()  *)
(* registers with every method, with handlers that are all falsy or not;   *)
(* between registrations it attaches middleware, reads the routes and      *)
(* resolves.                                                               *)
(***************************************************************************)
RegisterLists == {<<Fn1>>, <<Nil, Str(<<>>)>>}

NextRegister ==
  \/ Len(routers) = 0 /\ Create(BasePathRoot)
  \/ \E i \in 1..Len(routers), hs \in RegisterLists : Use(i, hs)
  \/ \E i \in 1..Len(routers), hs \in RegisterLists : Get(i, PathA, hs)
  \/ \E i \in 1..Len(routers), hs \in RegisterLists : Post(i, PathA, hs)
  \/ \E i \in 1..Len(routers), hs \in RegisterLists : Put(i, PathA, hs)
  \/ \E i \in 1..Len(routers), hs \in RegisterLists : Patch(i, PathA, hs)
  \/ \E i \in 1..Len(routers), hs \in RegisterLists : Delete(i, PathA, hs)
  \/ \E i \in 1..Len(routers) : Middleware(i, <<Fn1>>)
  \/ \E i \in 1..Len(routers) : BatchMiddlewares(i, <<Fn1>>, <<KeyGetA>>)
  \/ \E i \in 1..Len(routers) : GetRoutes(i)
  \/ \E i \in 1..Len(routers) : Resolver(i, Fn1)

SpecRegister == Init /\ [][NextRegister]_vars

(***************************************************************************)
(* Specification of the trimmed path: one router from Router.create()      *)
(* calls get, post, put, patch and delete with the path as it is, passing  *)
(* fn1, with the path padded with blanks, passing fn2, and with the path   *)
(* between a tab and a line feed, passing fn3.                             *)
(***************************************************************************)
TrimCalls == {<<PathA, <<Fn1>>>>, <<PathABlank, <<Fn2>>>>, <<PathATab, <<Fn3>>>>}

NextTrim ==
  \/ Len(routers) = 0 /\ Create(BasePathRoot)
  \/ \E i \in 1..Len(routers), c \in TrimCalls : Get(i, c[1], c[2])
  \/ \E i \in 1..Len(routers), c \in TrimCalls : Post(i, c[1], c[2])
  \/ \E i \in 1..Len(routers), c \in TrimCalls : Put(i, c[1], c[2])
  \/ \E i \in 1..Len(routers), c \in TrimCalls : Patch(i, c[1], c[2])
  \/ \E i \in 1..Len(routers), c \in TrimCalls : Delete(i, c[1], c[2])

SpecTrim == Init /\ [][NextTrim]_vars

(***************************************************************************)
(* Specification of the cache entries: one lazy router registers the       *)
(* string handler "C.o", preloads and resolves while the clock advances,   *)
(* the process changes between two directories that both hold the module,  *)
(* and the file of the first directory is removed or moved into a          *)
(* subdirectory.                                                           *)
(***************************************************************************)
EntryProjects == {ProjEmpty, ProjC, ProjDeep}

InitEntries == InitWith(EntryProjects) /\ disk[CwdQ] = ProjC

NextEntries ==
  \/ Len(routers) = 0 /\ Create(BasePathRoot)
  \/ \E i \in 1..Len(routers) :
       Handlers(routeStore) = 0 /\ Get(i, PathA, <<Str(RefC)>>)
  \/ \E i \in 1..Len(routers) : Preload(i)
  \/ \E i \in 1..Len(routers) : Resolver(i, Str(RefC))
  \/ Tick
  \/ \E d \in Cwds : Chdir(d)
  \/ \E project \in EntryProjects : FsChange(CwdP, project)

SpecEntries == InitEntries /\ [][NextEntries]_vars

(***************************************************************************)
(* Specification of getRoutes: one router, lazy or eager, puts string      *)
(* handlers and functions into the chains of two routes with get, post and *)
(* middleware, calls getRoutes and resolves the strings.                   *)
(***************************************************************************)
InitGetRoutes == InitWith({ProjC, ProjCD}) /\ disk[CwdQ] = ProjC

NextGetRoutes ==
  \/ \E f \in BOOLEAN : Len(routers) = 0 /\ Construct(BasePathRoot, f, FALSE)
  \/ \E i \in 1..Len(routers), hs \in {<<Str(RefC)>>, <<Fn1, Str(RefD)>>} :
       Get(i, PathA, hs)
  \/ \E i \in 1..Len(routers) : Post(i, PathA, <<Str(RefD)>>)
  \/ \E i \in 1..Len(routers) : Middleware(i, <<Str(RefC)>>)
  \/ \E i \in 1..Len(routers) : GetRoutes(i)
  \/ \E i \in 1..Len(routers), h \in {Str(RefC), Str(RefD)} : Resolver(i, h)

SpecGetRoutes == InitGetRoutes /\ [][NextGetRoutes]_vars

(***************************************************************************)
(* Specification of the growth of the chains: routers from Router.create() *)
(* register a string with get, attach middleware to the route, preload,    *)
(* read the routes and resolve.                                            *)
(***************************************************************************)
NextGrow ==
  \/ Create(BasePathRoot)
  \/ \E i \in 1..Len(routers) :
       Handlers(routeStore) < MaxRefs /\ Get(i, PathA, <<Str(RefC)>>)
  \/ \E i \in 1..Len(routers) : Middleware(i, <<Fn3>>)
  \/ \E i \in 1..Len(routers) : BatchMiddlewares(i, <<Fn3>>, <<KeyGetA>>)
  \/ \E i \in 1..Len(routers) : Preload(i)
  \/ \E i \in 1..Len(routers) : GetRoutes(i)
  \/ \E i \in 1..Len(routers) : Resolver(i, Str(RefC))

SpecGrow == Init /\ [][NextGrow]_vars

(***************************************************************************)
(* Properties.                                                             *)
(***************************************************************************)
\* some router already constructed has base path b
Addressed(b) == \E a \in 1..Len(routers) : routers[a].basePath = b

\* C1: two routers constructed on the same base path with the overwrite flag
\* left unset address one table: the routes registered through the first
\* before the second was constructed are in the table the second reads
C1_DefaultRoutersShareTable ==
  [][\A b \in BasePaths :
       (Create(b) /\ Addressed(b)) =>
         RoutesOf(routeStore', b) = RoutesOf(routeStore, b)]_vars

\* the chains of base path b are the ones counted from the calls of the
\* router whose construction stored the table
OwnCounts(b) ==
  LET led == ledger[b]
      routes == RoutesOf(routeStore, b)
  IN  (led.owner # 0 /\ ~led.foreign) =>
        /\ Len(led.counts) = Len(routes)
        /\ \A k \in 1..Len(routes) : Len(routes[k].middlewares) = led.counts[k]

ExportedClass(fullPath, className) ==
  LET module == ModuleAt(fullPath)
  IN  IF module.default # NullClass THEN module.default
      ELSE NamedExport(module, className)

\* what a resolver call on the string ref must come to, given the cache
ResolvedAs(cache, ref) ==
  IF ~Has(cache, ref) THEN lastCall'.ret = UnresolvedReferenceError
  ELSE LET cls == ExportedClass(Entry(cache, ref).fullPath, middlewareClassName(ref))
       IN  (cls # NullClass /\ HandlerName(ref) \in cls.proto) =>
             /\ lastCall'.ret = OK
             /\ lastCall'.cls = cls
             /\ lastCall'.method = HandlerName(ref)

\* C3: the resolver fails with UnresolvedReferenceError on a string ref that
\* has no entry in the router's cache; a successful preload leaves an entry
\* for every string ref of the table, entries keep their path, and every
\* resolver call on a ref whose module exports the class with the method
\* returns that class and method name
C3_ResolverAfterPreload ==
  /\ [][\A i \in 1..Len(routers), h \in Resolvables :
          (h.t = "string" /\ Resolver(i, h)) =>
            ResolvedAs(routers[i].preloadedHandler, h.s)]_vars
  /\ [][\A i \in 1..Len(routers) :
          (Preload(i) /\ lastCall'.ret = OK) =>
            LET refs == StringRefs(RoutesOf(routeStore, routers[i].basePath))
            IN  \A k \in 1..Len(refs) : Has(routers'[i].preloadedHandler, refs[k])]_vars
  /\ [][\A i \in 1..Len(routers) : \A e \in routers[i].preloadedHandler :
          /\ Has(routers'[i].preloadedHandler, e.ref)
          /\ Entry(routers'[i].preloadedHandler, e.ref).fullPath = e.fullPath]_vars

\* a resolver call on "C.o" returned the class C and the method name "o"
C3_Witness ==
  /\ lastCall.op = "resolver" /\ lastCall.ret = OK
  /\ lastCall.ref = RefC /\ lastCall.cls = ClassC /\ lastCall.method = <<"o">>

\* the table of router i after a registration call on key: the call's
\* non-falsy handlers are at the end of the key's chain, the other chains
\* are as they were
Appended(i, key, handlers) ==
  LET old == RoutesOf(routeStore, routers[i].basePath)
      new == RoutesOf(routeStore', routers[i].basePath)
  IN  /\ Keys(new) = Keys(old) \cup {key}
      /\ Chain(new, key) = Chain(old, key) \o FilterTruthy(handlers)
      /\ \A k \in Keys(old) \ {key} : Chain(new, k) = Chain(old, k)

\* C4: registration is cumulative: each use/get/post/put/patch/delete call
\* appends its non-falsy handlers to the chain already stored under the key
C4_RegistrationCumulative ==
  [][\A i \in 1..Len(routers) :
       /\ \A hs \in UseLists :
            Use(i, hs) => Appended(i, RouteKey(HTTP_USE, UsePath(hs)), UseHandlers(hs))
       /\ \A path \in Paths, hs \in HandlerLists :
            /\ Get(i, path, hs) => Appended(i, RouteKey(HTTP_GET, PathA), hs)
            /\ Post(i, path, hs) => Appended(i, RouteKey(HTTP_POST, PathA), hs)
            /\ Put(i, path, hs) => Appended(i, RouteKey(HTTP_PUT, PathA), hs)
            /\ Patch(i, path, hs) => Appended(i, RouteKey(HTTP_PATCH, PathA), hs)
            /\ Delete(i, path, hs) => Appended(i, RouteKey(HTTP_DELETE, PathA), hs)]_vars

\* get('/a', fn1) and then get('/a', undefined, fn2) left the chain fn1, fn2
C4_Witness ==
  /\ lastCall.op = "get"
  /\ Chain(RoutesOf(routeStore, BasePathRoot), KeyGetA) = <<Fn1, Fn2>>

\* C5: middleware(M) on a router that registered key K last puts M in front
\* of K's chain, leaves the other chains as they were and returns K
C5_MiddlewarePrepends ==
  [][\A i \in 1..Len(routers) :
       (Middleware(i, <<Fn3>>) /\ routers[i].lastMountedRouteKey # NoKey) =>
         LET K == routers[i].lastMountedRouteKey
             old == RoutesOf(routeStore, routers[i].basePath)
             new == RoutesOf(routeStore', routers[i].basePath)
         IN  /\ HasKey(new, K)
             /\ Chain(new, K) = <<Fn3>> \o Chain(old, K)
             /\ \A k \in Keys(old) \ {K} : Chain(new, k) = Chain(old, k)
             /\ lastCall'.reg = K]_vars

\* the keys a list names
Named(routeKeys) == {routeKeys[k] : k \in 1..Len(routeKeys)}

\* C6 as stated: batchMiddlewares(M)(keys) makes the chain of every route
\* named in keys longer by len(M), however often the key is named, and
\* leaves the other chains as they were
C6_BatchAddsLenM ==
  [][\A i \in 1..Len(routers), ms \in MiddlewareLists, ks \in KeyLists :
       BatchMiddlewares(i, ms, ks) =>
         LET old == RoutesOf(routeStore, routers[i].basePath)
             new == RoutesOf(routeStore', routers[i].basePath)
         IN  /\ Keys(new) = Keys(old)
             /\ \A k \in Keys(old) \cap Named(ks) :
                  Len(Chain(new, k)) = Len(Chain(old, k)) + Len(ms)
             /\ \A k \in Keys(old) \ Named(ks) : Chain(new, k) = Chain(old, k)]_vars

\* a preload under the current working directory scanned at most 60 s ago
ScannedHereLately == scanLog[cwd] # NoScan /\ now - scanLog[cwd] <= 60000

\* C7 as stated: of two preload calls at most 60 s apart under the same
\* working directory, whichever routers make them, the second does not scan
\* when the first did
C7_OneScanPerInterval ==
  [][\A i \in 1..Len(routers) :
       (Preload(i) /\ ScannedHereLately) => ~lastCall'.scanned]_vars

\* C7: of two preload calls at most 60 s apart under the same working
\* directory, the second does not scan when the first did, provided no
\* preload scanned under another working directory in between
C7_OneScanPerIntervalSameCwd ==
  [][\A i \in 1..Len(routers) :
       (Preload(i) /\ ScannedHereLately /\ preloader.cwd = cwd) =>
         (~lastCall'.scanned /\ preloader' = preloader)]_vars

\* a preload exactly 60 s after the scan under this directory did not scan
C7_Witness ==
  /\ lastCall.op = "preload" /\ ~lastCall.scanned
  /\ scanLog[cwd] # NoScan /\ now - scanLog[cwd] = 60000
  /\ preloader.cwd = cwd

\* C8: a preload call scans if and only if more than 60 s have passed since
\* the last scan or the working directory is not the recorded one; when it
\* scans it records the current time and working directory
C8_RescanIffStale ==
  [][\A i \in 1..Len(routers) :
       Preload(i) =>
         LET due == now - preloader.lastScan > 60000 \/ preloader.cwd # cwd
         IN  /\ lastCall'.scanned <=> due
             /\ due => preloader'.lastScan = now /\ preloader'.cwd = cwd
             /\ ~due => preloader' = preloader]_vars

\* a preload scanned because the process had changed directory, less than
\* 60 s after the scan before it
C8_Witness ==
  /\ lastCall.op = "preload" /\ lastCall.scanned
  /\ cwd = CwdQ /\ preloader.cwd = CwdQ /\ preloader.lastScan = now
  /\ scanLog[CwdP] # NoScan /\ now - scanLog[CwdP] <= 60000

\* the final segment of a path of the listing
LastSegment(file) == SubstringFrom(file, LastIndexOf(file, "/") + 1)

\* the listing has no path whose final segment is <class token>.ts or .js
Missing(ref, files) ==
  \A k \in 1..Len(files) :
    LastSegment(files[k]) \notin {ClassToken(ref) \o <<".", "t", "s">>,
                                  ClassToken(ref) \o <<".", "j", "s">>}

\* the first path of the listing whose final segment is <class token>.ts
\* or .js
FirstExact(ref, files) ==
  files[CHOOSE k \in 1..Len(files) :
          /\ ~Missing(ref, <<files[k]>>)
          /\ \A j \in 1..(k - 1) : Missing(ref, <<files[j]>>)]

\* C9: preload fails with ModuleNotFoundError on a string ref without cache
\* entry exactly when the cached listing has no path whose final segment is
\* <class token>.ts or .js; otherwise it creates the entry for the first
\* such path
C9_ModuleNotFoundIffNoFile ==
  [][\A i \in 1..Len(routers) :
       Preload(i) =>
         LET refs == StringRefs(RoutesOf(routeStore, routers[i].basePath))
             files == preloader'.projectFiles
             old == routers[i].preloadedHandler
             new == routers'[i].preloadedHandler
         IN  /\ lastCall'.ret = ModuleNotFoundError => Missing(lastCall'.ref, files)
             /\ \A k \in 1..Len(refs) :
                  (~Has(old, refs[k]) /\ Missing(refs[k], files)) =>
                    (lastCall'.ret = ModuleNotFoundError /\ ~Has(new, refs[k]))
             /\ \A k \in 1..Len(refs) :
                  (~Has(old, refs[k]) /\ Has(new, refs[k])) =>
                    Entry(new, refs[k]).fullPath =
                      FullPath(cwd, FirstExact(refs[k], files))]_vars

\* router i's last call was a preload that failed to locate a module, and
\* since then the project has come to hold a file for every string ref of
\* the table that has no cache entry
Retry(i) ==
  /\ lastCall.op \in {"preload", "getRoutes"} /\ lastCall.r = i
  /\ lastCall.ret = ModuleNotFoundError
  /\ LET refs == StringRefs(RoutesOf(routeStore, routers[i].basePath))
     IN  \A k \in 1..Len(refs) :
           Has(routers[i].preloadedHandler, refs[k])
             \/ ~Missing(refs[k], ProjectFiles(disk[cwd]))

\* the retry succeeded and the ref that had failed has its entry
Retried(i) ==
  /\ lastCall'.ret = OK
  /\ Has(routers'[i].preloadedHandler, lastCall.ref)

\* C10 as stated: after a preload failed with ModuleNotFoundError and the
\* missing file was added, the next preload call of the router succeeds
C10_RetrySucceeds ==
  [][\A i \in 1..Len(routers) : (Preload(i) /\ Retry(i)) => Retried(i)]_vars

\* C10: after a preload failed with ModuleNotFoundError and the missing
\* file was added, the next preload call of the router succeeds when it is
\* made more than 60 s after the last scan or under another working
\* directory, so that it scans again
C10_RetrySucceedsAfterRescan ==
  [][\A i \in 1..Len(routers) :
       (Preload(i) /\ Retry(i)
          /\ (now - preloader.lastScan > 60000 \/ preloader.cwd # cwd)) =>
         Retried(i)]_vars

\* a preload that followed a failed one scanned again and located "C.o"
C10_Witness ==
  /\ lastCall.op = "preload" /\ lastCall.retryOf = RefC
  /\ lastCall.ret = OK /\ lastCall.scanned
  /\ Has(routers[lastCall.r].preloadedHandler, RefC)

\* how often the list names the key
Times(key, routeKeys) == Cardinality({j \in 1..Len(routeKeys) : routeKeys[j] = key})

\* C6: batchMiddlewares(M)(keys) makes the chain of every route named in
\* keys longer by len(M) for each time the key is named, all of it in front
\* of the chain, and leaves the other chains as they were
C6_BatchAddsLenMPerNaming ==
  [][\A i \in 1..Len(routers), ms \in MiddlewareLists, ks \in KeyLists :
       BatchMiddlewares(i, ms, ks) =>
         LET old == RoutesOf(routeStore, routers[i].basePath)
             new == RoutesOf(routeStore', routers[i].basePath)
         IN  /\ Keys(new) = Keys(old)
             /\ \A k \in Keys(old) \cap Named(ks) :
                  /\ Len(Chain(new, k)) = Len(Chain(old, k)) + Times(k, ks) * Len(ms)
                  /\ SubSeq(Chain(new, k), 1, Len(ms)) = ms
                  /\ SubSeq(Chain(new, k), Times(k, ks) * Len(ms) + 1, Len(Chain(new, k)))
                       = Chain(old, k)
             /\ \A k \in Keys(old) \ Named(ks) : Chain(new, k) = Chain(old, k)]_vars

\* batchMiddlewares([fn3]) over a list naming get::/a twice put fn3 twice in
\* front of the chain of get::/a
C6_Witness ==
  /\ lastCall.op = "batchMiddlewares"
  /\ Chain(RoutesOf(routeStore, BasePathRoot), KeyGetA) = <<Fn3, Fn3, Fn1>>

\* router i makes a preload, getRoutes or resolver call
Lookup(i) ==
  Preload(i) \/ GetRoutes(i) \/ \E h \in ResolveInputs : Resolver(i, h)

\* the entry holds no class, or the class its module hands to the loader
Sound(e) ==
  \/ e.MiddlewareClass = NullClass
  \/ e.MiddlewareClass = ExportedClass(e.fullPath, e.middlewareClassName)

\* C11: a resolver, preload or getRoutes call that fails leaves every route
\* table as it was, leaves no entry for the reference it failed to locate
\* or (in eager mode) to load, adds entries only for references whose file
\* the listing holds, with their class in eager mode, and every entry holds
\* no class or the class the loader returns for its path
C11_FailureKeepsState ==
  [][\A i \in 1..Len(routers) :
       (Lookup(i) /\ lastCall'.ret # OK) =>
         LET old == routers[i].preloadedHandler
             new == routers'[i].preloadedHandler
         IN  /\ routeStore' = routeStore
             /\ lastCall'.op \in {"preload", "getRoutes"} => ~Has(new, lastCall'.ref)
             /\ \A e \in new :
                  /\ Sound(e)
                  /\ ~Has(old, e.ref) =>
                       /\ FindFile(MiddlewareFileName(e.ref), preloader'.projectFiles) # 0
                       /\ routers[i].fullPreload => e.MiddlewareClass # NullClass
             /\ \A e \in old : Has(new, e.ref) /\ Entry(new, e.ref).fullPath = e.fullPath]_vars

\* getRoutes of an eager router failed to load the class of "C.o" and left
\* no entry for it
C11_Witness ==
  /\ lastCall.op = "getRoutes" /\ lastCall.ret = ClassLoadError
  /\ lastCall.ref = RefC
  /\ routers[lastCall.r].fullPreload
  /\ ~Has(routers[lastCall.r].preloadedHandler, RefC)

\* the references a list names
Among(ref, refs) == \E k \in 1..Len(refs) : refs[k] = ref

\* C12: once an entry holds a class, no later preload, getRoutes or
\* resolver call of the router changes it or invokes loadClass for the
\* entry again
C12_LoadedOnce ==
  [][\A i \in 1..Len(routers) :
       Lookup(i) =>
         \A e \in routers[i].preloadedHandler :
           e.MiddlewareClass # NullClass =>
             /\ Has(routers'[i].preloadedHandler, e.ref)
             /\ Entry(routers'[i].preloadedHandler, e.ref).MiddlewareClass
                  = e.MiddlewareClass
             /\ ~Among(e.ref, lastCall'.loads)]_vars

\* a lazy router resolved "D" without invoking loadClass: an earlier
\* resolver call had loaded the class
C12_Witness ==
  /\ lastCall.op = "resolver" /\ lastCall.ret = OK /\ lastCall.ref = RefD
  /\ lastCall.cls = ClassD /\ lastCall.loads = <<>>
  /\ ~routers[lastCall.r].fullPreload

\* the class held for ref in the cache, null when there is no entry
ClassOf(cache, ref) ==
  IF Has(cache, ref) THEN Entry(cache, ref).MiddlewareClass ELSE NullClass

\* C13: every entry of an eager router holds its class from the moment
\* preload creates it; preload of a lazy router never invokes loadClass and
\* an entry of a lazy router holds no class until a resolver call on its
\* reference
C13_LoadingPolicy ==
  /\ [](\A i \in 1..Len(routers) :
          routers[i].fullPreload =>
            \A e \in routers[i].preloadedHandler : e.MiddlewareClass # NullClass)
  /\ [][\A i \in 1..Len(routers) :
          (~routers[i].fullPreload /\ (Preload(i) \/ GetRoutes(i))) =>
            /\ lastCall'.loads = <<>>
            /\ \A e \in routers'[i].preloadedHandler :
                 e.MiddlewareClass = ClassOf(routers[i].preloadedHandler, e.ref)]_vars
  /\ [][\A i \in 1..Len(routers) :
          ~routers[i].fullPreload =>
            \A e \in routers'[i].preloadedHandler :
              e.MiddlewareClass # ClassOf(routers[i].preloadedHandler, e.ref) =>
                Resolver(i, Str(e.ref))]_vars

\* preload of an eager router loaded the class of "D" into the entry it
\* created
C13_Witness ==
  /\ lastCall.op = "preload" /\ lastCall.ret = OK /\ lastCall.loads = <<RefD>>
  /\ routers[lastCall.r].fullPreload
  /\ ClassOf(routers[lastCall.r].preloadedHandler, RefD) = ClassD

\* C14: the name preload searches the listing for is the class token of the
\* reference, everything before its first ".", the token the resolver makes
\* the class name from: preload fails to locate a reference only when no
\* file of the listing matches the class token, and the entry it creates is
\* for the first file that matches the class token
C14_PreloadSearchesClassToken ==
  [][\A i \in 1..Len(routers) :
       (Preload(i) \/ GetRoutes(i)) =>
         LET files == preloader'.projectFiles
             old == routers[i].preloadedHandler
             new == routers'[i].preloadedHandler
         IN  /\ lastCall'.ret = ModuleNotFoundError =>
                  FindFile(ClassToken(lastCall'.ref), files) = 0
             /\ \A e \in new :
                  ~Has(old, e.ref) =>
                    /\ FindFile(ClassToken(e.ref), files) # 0
                    /\ e.fullPath =
                         FullPath(cwd, files[FindFile(ClassToken(e.ref), files)])
                    /\ e.middlewareClassName = middlewareClassName(e.ref)]_vars

\* the references that have an entry
Refs(cache) == {e.ref : e \in cache}

\* C15: a resolver call, successful or failing, scans nothing, leaves the
\* preloader state and every route table unchanged, adds no entry to the
\* cache, and changes at most the class of the entry it resolves
C15_ResolverDiscoversNothing ==
  [][\A i \in 1..Len(routers), h \in ResolveInputs :
       Resolver(i, h) =>
         LET old == routers[i].preloadedHandler
             new == routers'[i].preloadedHandler
         IN  /\ preloader' = preloader
             /\ scanLog' = scanLog /\ ~lastCall'.scanned
             /\ routeStore' = routeStore
             /\ Refs(new) = Refs(old)
             /\ \A e \in new :
                  /\ e.fullPath = Entry(old, e.ref).fullPath
                  /\ e.middlewareClassName = Entry(old, e.ref).middlewareClassName
                  /\ (h.t = "function" \/ e.ref # h.s) => e = Entry(old, e.ref)
             /\ \A j \in 1..Len(routers) : j # i => routers'[j] = routers[j]]_vars

\* a resolver call on a registered reference failed for want of a preload,
\* and nothing has been scanned
C15_Witness ==
  /\ lastCall.op = "resolver" /\ lastCall.ret = UnresolvedReferenceError
  /\ Among(lastCall.ref, StringRefs(RoutesOf(routeStore, BasePathRoot)))
  /\ preloader.lastScan = 0 /\ preloader.projectFiles = <<>>

\* every string handler of the table of router i has its entry
AllCached(i) ==
  LET refs == StringRefs(RoutesOf(routeStore, routers[i].basePath))
  IN  \A k \in 1..Len(refs) : Has(routers[i].preloadedHandler, refs[k])

\* C16: a preload call made when every string handler of the table has its
\* entry returns normally, leaves the cache exactly as it was and invokes
\* loadClass for no reference; no reference ever has two entries
C16_PreloadIdempotent ==
  /\ [][\A i \in 1..Len(routers) :
          (Preload(i) /\ AllCached(i)) =>
            /\ routers'[i].preloadedHandler = routers[i].preloadedHandler
            /\ lastCall'.loads = <<>>
            /\ lastCall'.ret = OK]_vars
  /\ [](\A i \in 1..Len(routers) :
          \A e1, e2 \in routers[i].preloadedHandler : e1.ref = e2.ref => e1 = e2)

\* a preload scanned a project that no longer holds the file of "C.o" and
\* returned normally, the reference having its entry from before
C16_Witness ==
  /\ lastCall.op = "preload" /\ lastCall.ret = OK /\ lastCall.scanned
  /\ preloader.project = ProjEmpty
  /\ Len(routers) = 1 /\ AllCached(1)
  /\ Has(routers[1].preloadedHandler, RefC)

\* C17: a class load takes the module's default export when there is one,
\* otherwise the export named after the canonical class name, and fails
\* with ClassLoadError exactly when the module has neither; a failed load
\* leaves no class cached for the reference
C17_LoadClassChoice ==
  [][\A i \in 1..Len(routers) :
       Lookup(i) =>
         \A k \in 1..Len(lastCall'.loads) :
           LET ref == lastCall'.loads[k]
               new == routers'[i].preloadedHandler
               fullPath == IF Has(new, ref) THEN Entry(new, ref).fullPath
                           ELSE FullPath(cwd, preloader'.projectFiles[
                                  FindFile(MiddlewareFileName(ref),
                                           preloader'.projectFiles)])
               class == ExportedClass(fullPath, middlewareClassName(ref))
           IN  /\ ClassOf(new, ref) = class
               /\ class = NullClass <=>
                    (lastCall'.ret = ClassLoadError /\ lastCall'.ref = ref)
               /\ (lastCall'.op = "resolver" /\ lastCall'.ret = OK) =>
                    lastCall'.cls = class]_vars

\* the resolver loaded the module of "D", which has a default export and an
\* export named D, and returned the default export
C17_Witness ==
  /\ lastCall.op = "resolver" /\ lastCall.ret = OK
  /\ lastCall.loads = <<RefD>> /\ lastCall.cls = ClassD
  /\ NamedExport(ModuleAt(Entry(routers[lastCall.r].preloadedHandler, RefD).fullPath),
                 <<"D">>) = ClassQ

\* the part of the reference after its first ".", "handle" without "."
MethodPart(ref) ==
  IF IndexOf(ref, ".") = -1 THEN <<"h", "a", "n", "d", "l", "e">>
  ELSE SubstringFrom(ref, IndexOf(ref, ".") + 1)

\* the segment of the reference between its first and its second ".",
\* "handle" without "."
MethodSegment(ref) ==
  IF IndexOf(MethodPart(ref), ".") = -1 \/ IndexOf(ref, ".") = -1 THEN MethodPart(ref)
  ELSE Substring(MethodPart(ref), 0, IndexOf(MethodPart(ref), "."))

\* a resolver call on the cached reference ref, whose class loads, returns
\* the class with methodName when the class defines it and fails with
\* MissingHandlerMethodError when it does not
ResolvesMethod(cache, ref, methodName) ==
  LET class == IF ClassOf(cache, ref) # NullClass THEN ClassOf(cache, ref)
               ELSE ExportedClass(Entry(cache, ref).fullPath, middlewareClassName(ref))
  IN  (Has(cache, ref) /\ class # NullClass) =>
        IF methodName \in class.proto
          THEN /\ lastCall'.ret = OK
               /\ lastCall'.cls = class
               /\ lastCall'.method = methodName
          ELSE lastCall'.ret = MissingHandlerMethodError

MethodOfKey(key) == Substring(key, 0, IndexOf(key, ":"))
PathOfKey(key) == SubstringFrom(key, IndexOf(key, ":") + 2)

\* C19: every entry of every table is stored under "<method>::<path>" with
\* method one of use, get, post, put, patch, delete, and its method field
\* is the method segment of its key
C19_KeyFormat ==
  \A b \in BasePaths :
    \A k \in 1..Len(RoutesOf(routeStore, b)) :
      LET e == RoutesOf(routeStore, b)[k]
      IN  /\ e.method \in {<<"u", "s", "e">>, <<"g", "e", "t">>, <<"p", "o", "s", "t">>,
                           <<"p", "u", "t">>, <<"p", "a", "t", "c", "h">>,
                           <<"d", "e", "l", "e", "t", "e">>}
          /\ MethodOfKey(e.key) = e.method
          /\ e.key = e.method \o <<":", ":">> \o PathOfKey(e.key)
          /\ PathOfKey(e.key) \in {<<"*">>, <<"/", "a">>}

\* post(' /a ', ...) stored its entry under "post::/a" with method post,
\* next to an entry of another method
C19_Witness ==
  /\ lastCall.op = "post"
  /\ Len(RoutesOf(routeStore, BasePathRoot)) = 2
  /\ \E k \in 1..2 :
       /\ RoutesOf(routeStore, BasePathRoot)[k].key
            = <<"p", "o", "s", "t", ":", ":", "/", "a">>
       /\ RoutesOf(routeStore, BasePathRoot)[k].method = <<"p", "o", "s", "t">>

\* C20: constructing a Router with overwriteExisting = true on a base path
\* that has a table leaves the table of the base path empty, and
\* constructing it with overwriteExisting = false leaves the table as it
\* was
C20_OverwriteAsDocumented ==
  [][\A b \in BasePaths, o \in BOOLEAN :
       (Construct(b, FALSE, o) /\ routeStore[b].present) =>
         IF o THEN RoutesOf(routeStore', b) = <<>>
              ELSE RoutesOf(routeStore', b) = RoutesOf(routeStore, b)]_vars

\* C21: the constructor warns exactly when the base path has a table and
\* overwriteExisting is unset; the warning is not fatal, the router exists
\* and its base path has a table afterwards; the existing table is kept
\* when overwriteExisting is unset and replaced by an empty one when it is
\* set
C21_WarningThenReuseOrReplace ==
  [][\A b \in BasePaths, o \in BOOLEAN :
       Construct(b, FALSE, o) =>
         /\ lastCall'.warned <=> (routeStore[b].present /\ ~o)
         /\ Len(routers') = Len(routers) + 1
         /\ routers'[Len(routers')].basePath = b
         /\ routeStore'[b].present
         /\ routeStore[b].present =>
              IF o THEN RoutesOf(routeStore', b) = <<>>
                   ELSE RoutesOf(routeStore', b) = RoutesOf(routeStore, b)]_vars

\* router i makes a call
Calls(i) ==
  \/ Get(i, PathA, <<Str(RefC)>>)
  \/ Middleware(i, <<Fn3>>)
  \/ BatchMiddlewares(i, <<Fn3>>, <<KeyGetA>>)
  \/ GetRoutes(i)
  \/ Resolver(i, Str(RefC))

\* C22: constructing a Router for a base path, and every registration,
\* middleware, batchMiddlewares, getRoutes and resolver call on a router,
\* leaves the table of every other base path as it was: a step that
\* changes the table of a base path is no construction for another base
\* path and no call of a router of another base path
C22_BasePathsIndependent ==
  [][\A y \in BasePaths :
       routeStore'[y] # routeStore[y] =>
         /\ \A x \in BasePaths \ {y} : ~Construct(x, FALSE, TRUE)
         /\ \A i \in 1..Len(routers) : routers[i].basePath # y => ~Calls(i)]_vars

\* the router of "/x" was constructed and attached middleware to its route
\* while the table of "/" held the routes registered before
C22_Witness ==
  /\ Len(routers) = 2
  /\ routers[1].basePath = BasePathRoot /\ routers[2].basePath = BasePathX
  /\ lastCall.op = "middleware" /\ lastCall.r = 2
  /\ Chain(RoutesOf(routeStore, BasePathX), KeyGetA) = <<Fn3, Str(RefC)>>
  /\ Chain(RoutesOf(routeStore, BasePathRoot), KeyGetA) = <<Str(RefC)>>

\* C23: middleware(M) on a router through which no route has been
\* registered returns normally and changes nothing: every table, the
\* router's last mounted key and every preload cache are as they were
C23_MiddlewareWithoutRegistration ==
  [][\A i \in 1..Len(routers) :
       (Middleware(i, <<Fn3>>) /\ routers[i].lastMountedRouteKey = NoKey) =>
         /\ routeStore' = routeStore
         /\ routers' = routers
         /\ lastCall'.ret = OK
         /\ lastCall'.reg = NoKey]_vars

\* the second router of "/" has registered nothing; it called middleware
\* while the table it shares held a route and its own cache an entry
C23_Witness ==
  /\ lastCall.op = "middleware" /\ lastCall.r = 2 /\ Len(routers) >= 2
  /\ routers[2].basePath = BasePathRoot
  /\ routers[2].lastMountedRouteKey = NoKey
  /\ routers[2].preloadedHandler # {}
  /\ Chain(RoutesOf(routeStore, BasePathRoot), KeyGetA) = <<Str(RefC)>>

\* use() was given more than one argument, the first a string that begins
\* with "/"
PathGiven(hs) ==
  Len(hs) > 1 /\ hs[1].t = "string" /\ Len(hs[1].s) > 0 /\ Head(hs[1].s) = "/"

\* C24: use() with more than one argument, the first a string beginning
\* with "/", registers under "use::" followed by that string and appends the
\* non-falsy ones of the other arguments; in every other case, a single
\* string beginning with "/" included, it registers under "use::*" and
\* appends all its non-falsy arguments
C24_UsePathSelection ==
  [][\A i \in 1..Len(routers), hs \in UseInputs :
       Use(i, hs) =>
         IF PathGiven(hs)
           THEN /\ lastCall'.reg = <<"u", "s", "e", ":", ":">> \o hs[1].s
                /\ Appended(i, <<"u", "s", "e", ":", ":">> \o hs[1].s, Tail(hs))
           ELSE /\ lastCall'.reg = <<"u", "s", "e", ":", ":", "*">>
                /\ Appended(i, <<"u", "s", "e", ":", ":", "*">>, hs)]_vars

\* use('/a') appended the string "/a" to the chain of use::* that
\* use('C.o', fn1) had started, next to the route use('/a', fn1) had stored
\* under use::/a
C24_Witness ==
  /\ lastCall.op = "use" /\ lastCall.reg = <<"u", "s", "e", ":", ":", "*">>
  /\ Chain(RoutesOf(routeStore, BasePathRoot), <<"u", "s", "e", ":", ":", "*">>)
       = <<Str(RefC), Fn1, Str(PathA)>>
  /\ HasKey(RoutesOf(routeStore, BasePathRoot), <<"u", "s", "e", ":", ":", "/", "a">>)

\* after a registration of router i with handlers hs, the register accessor
\* is key and the table has an entry under key, with an empty chain when
\* the key is new and no handler of hs remains
Registered(i, key, hs) ==
  LET old == RoutesOf(routeStore, routers[i].basePath)
      new == RoutesOf(routeStore', routers[i].basePath)
  IN  /\ routers'[i].lastMountedRouteKey = key
      /\ lastCall'.reg = key
      /\ HasKey(new, key)
      /\ (~HasKey(old, key) /\ \A k \in 1..Len(hs) : hs[k] \in {Nil, Str(<<>>)}) =>
           new[Pos(new, key)].middlewares = <<>>

\* C25: after every registration call with method m and path p, one whose
\* handlers are all falsy included, the register accessor is "m::p" and the
\* table holds an entry under that key, a placeholder with an empty chain
\* when the key was new and no handler remained; middleware,
\* batchMiddlewares, getRoutes and resolver calls leave the accessor as it
\* was (each call records its own name in lastCall.op, tested first)
C25_RegisterIsLastKey ==
  /\ [][\A i \in 1..Len(routers), hs \in RegisterLists :
          /\ (lastCall'.op = "use" /\ Use(i, hs)) =>
               Registered(i, <<"u", "s", "e", ":", ":", "*">>, hs)
          /\ (lastCall'.op = "get" /\ Get(i, PathA, hs)) =>
               Registered(i, <<"g", "e", "t", ":", ":", "/", "a">>, hs)
          /\ (lastCall'.op = "post" /\ Post(i, PathA, hs)) =>
               Registered(i, <<"p", "o", "s", "t", ":", ":", "/", "a">>, hs)
          /\ (lastCall'.op = "put" /\ Put(i, PathA, hs)) =>
               Registered(i, <<"p", "u", "t", ":", ":", "/", "a">>, hs)
          /\ (lastCall'.op = "patch" /\ Patch(i, PathA, hs)) =>
               Registered(i, <<"p", "a", "t", "c", "h", ":", ":", "/", "a">>, hs)
          /\ (lastCall'.op = "delete" /\ Delete(i, PathA, hs)) =>
               Registered(i, <<"d", "e", "l", "e", "t", "e", ":", ":", "/", "a">>, hs)]_vars
  /\ [][\A i \in 1..Len(routers) :
          routers'[i].lastMountedRouteKey # routers[i].lastMountedRouteKey =>
            ~(\/ Middleware(i, <<Fn1>>)
              \/ BatchMiddlewares(i, <<Fn1>>, <<KeyGetA>>)
              \/ GetRoutes(i)
              \/ Resolver(i, Fn1))]_vars

\* delete('/a', undefined, '') stored a placeholder under delete::/a, next
\* to a route with a handler, and register is delete::/a
C25_Witness ==
  /\ lastCall.op = "delete" /\ Len(routers) = 1
  /\ routers[1].lastMountedRouteKey = <<"d", "e", "l", "e", "t", "e", ":", ":", "/", "a">>
  /\ HasKey(RoutesOf(routeStore, BasePathRoot),
            <<"d", "e", "l", "e", "t", "e", ":", ":", "/", "a">>)
  /\ Chain(RoutesOf(routeStore, BasePathRoot),
           <<"d", "e", "l", "e", "t", "e", ":", ":", "/", "a">>) = <<>>
  /\ Chain(RoutesOf(routeStore, BasePathRoot), KeyGetA) = <<Fn1>>

\* C26: get, post, put, patch and delete trim the path before the key is
\* built: calls of one method whose paths differ only in leading or
\* trailing white space append to the chain of one key, and no key of the
\* table has a path that starts or ends with white space
C26_PathTrimmed ==
  /\ [][\A i \in 1..Len(routers), c \in TrimCalls :
          /\ Get(i, c[1], c[2]) => Appended(i, <<"g", "e", "t", ":", ":", "/", "a">>, c[2])
          /\ Post(i, c[1], c[2]) =>
               Appended(i, <<"p", "o", "s", "t", ":", ":", "/", "a">>, c[2])
          /\ Put(i, c[1], c[2]) => Appended(i, <<"p", "u", "t", ":", ":", "/", "a">>, c[2])
          /\ Patch(i, c[1], c[2]) =>
               Appended(i, <<"p", "a", "t", "c", "h", ":", ":", "/", "a">>, c[2])
          /\ Delete(i, c[1], c[2]) =>
               Appended(i, <<"d", "e", "l", "e", "t", "e", ":", ":", "/", "a">>, c[2])]_vars
  /\ [](\A b \in BasePaths : \A key \in Keys(RoutesOf(routeStore, b)) :
          /\ PathOfKey(key) # <<>>
          /\ Head(PathOfKey(key)) \notin {" ", "\t", "\n"}
          /\ PathOfKey(key)[Len(PathOfKey(key))] \notin {" ", "\t", "\n"})

\* put('/a', fn1), put(' /a ', fn2) and put('\t/a\n', fn3) made one chain
\* under put::/a, the only key of the table
C26_Witness ==
  /\ lastCall.op = "put"
  /\ Len(RoutesOf(routeStore, BasePathRoot)) = 1
  /\ Chain(RoutesOf(routeStore, BasePathRoot), <<"p", "u", "t", ":", ":", "/", "a">>)
       = <<Fn1, Fn2, Fn3>>

\* the path of the listing that preload matches for the reference
Matched(ref, files) == files[FindFile(MiddlewareFileName(ref), files)]

\* a path of the listing from its first "/" on: without its first segment
BelowRoot(file) ==
  SubSeq(file, CHOOSE k \in 1..Len(file) :
                 file[k] = "/" /\ \A j \in 1..(k - 1) : file[j] # "/",
         Len(file))

\* C27 as stated: the fullPath of an entry is the working directory at the
\* time of the preload that creates it joined with the whole matched path
\* of the listing
C27_FullPathWholeRelative ==
  [][\A i \in 1..Len(routers) :
       Preload(i) =>
         \A e \in routers'[i].preloadedHandler :
           ~Has(routers[i].preloadedHandler, e.ref) =>
             e.fullPath = cwd \o <<"/">> \o Matched(e.ref, preloader'.projectFiles)]_vars

\* C27: the fullPath of an entry is the working directory at the time of
\* the preload that creates it joined with the matched path of the listing
\* without its first segment, the name of the scanned directory:
\* root/ControllerName.js yields <cwd>/ControllerName.js
C27_FullPathBelowRoot ==
  [][\A i \in 1..Len(routers) :
       Preload(i) =>
         \A e \in routers'[i].preloadedHandler :
           ~Has(routers[i].preloadedHandler, e.ref) =>
             e.fullPath = cwd \o BelowRoot(Matched(e.ref, preloader'.projectFiles))]_vars

\* a preload under /p, with the listing r/s/C.js, created the entry of
\* "C.o" with the path /p/s/C.js
C27_Witness ==
  /\ lastCall.op = "preload" /\ lastCall.ret = OK /\ lastCall.scanned
  /\ cwd = CwdP /\ preloader.projectFiles = <<<<"r", "/", "s", "/", "C", ".", "j", "s">>>>
  /\ Has(routers[1].preloadedHandler, RefC)
  /\ Entry(routers[1].preloadedHandler, RefC).fullPath
       = <<"/", "p", "/", "s", "/", "C", ".", "j", "s">>

\* the string ref is a handler of some chain of the table of router i
InTable(i, ref) ==
  LET routes == RoutesOf(routeStore, routers[i].basePath)
  IN  \E k \in 1..Len(routes) : \E j \in 1..Len(routes[k].middlewares) :
        routes[k].middlewares[j] = Str(ref)

\* C28: when getRoutes() returns normally, the cache of the router holds an
\* entry for every string handler of every chain of the table, and a
\* resolver call that follows it on a string handler of the table does not
\* fail with UnresolvedReferenceError
C28_GetRoutesCoversTable ==
  /\ []((lastCall.op = "getRoutes" /\ lastCall.ret = OK) =>
          \A ref \in {RefC, RefD} :
            InTable(lastCall.r, ref) => Has(routers[lastCall.r].preloadedHandler, ref))
  /\ [][\A i \in 1..Len(routers), ref \in {RefC, RefD} :
          (lastCall.op = "getRoutes" /\ lastCall.ret = OK /\ lastCall.r = i
             /\ InTable(i, ref) /\ lastCall'.ret = UnresolvedReferenceError) =>
            ~Resolver(i, Str(ref))]_vars

\* getRoutes returned normally with "C.o" in the chain of get::/a and, put
\* there by middleware, in front of "D" in the chain of post::/a; both
\* references have their entry
C28_Witness ==
  /\ lastCall.op = "getRoutes" /\ lastCall.ret = OK
  /\ Chain(RoutesOf(routeStore, BasePathRoot), KeyGetA) = <<Str(RefC)>>
  /\ Chain(RoutesOf(routeStore, BasePathRoot),
           <<"p", "o", "s", "t", ":", ":", "/", "a">>) = <<Str(RefC), Str(RefD)>>
  /\ Has(routers[1].preloadedHandler, RefC)
  /\ Has(routers[1].preloadedHandler, RefD)

\* another router of the base path of router i holds an entry for ref
PreloadedByAnother(i, ref) ==
  \E j \in 1..Len(routers) :
    /\ j # i
    /\ routers[j].basePath = routers[i].basePath
    /\ Has(routers[j].preloadedHandler, ref)

\* C29: the preload cache belongs to the instance, also when the table is
\* shared: a step that changes the cache of a router is no getRoutes and no
\* resolver call of another router, and the resolver of a router without
\* entry for a reference fails with UnresolvedReferenceError although
\* another router of the same base path has preloaded the reference
C29_CachePerInstance ==
  /\ [][\A j \in 1..Len(routers) :
          routers'[j].preloadedHandler # routers[j].preloadedHandler =>
            \A i \in 1..Len(routers) \ {j} :
              ~(GetRoutes(i) \/ Resolver(i, Str(RefC)))]_vars
  /\ [][\A i \in 1..Len(routers) :
          (PreloadedByAnother(i, RefC) /\ ~Has(routers[i].preloadedHandler, RefC)
             /\ Resolver(i, Str(RefC))) =>
            lastCall'.ret = UnresolvedReferenceError]_vars

\* the resolver of the first router of "/" failed on "C.o", which the
\* second router of "/" had preloaded from the table they share
C29_Witness ==
  /\ lastCall.op = "resolver" /\ lastCall.r = 1
  /\ lastCall.ret = UnresolvedReferenceError /\ lastCall.ref = RefC
  /\ Len(routers) >= 2
  /\ routers[1].basePath = BasePathRoot /\ routers[2].basePath = BasePathRoot
  /\ ~Has(routers[1].preloadedHandler, RefC)
  /\ Has(routers[2].preloadedHandler, RefC)
  /\ InTable(1, RefC)

\* C30: an entry of the cache of a router is never removed, and its
\* fullPath and its class name never change, whatever step is taken: also
\* not by a preload that scans again, after more than 60 s or under another
\* working directory, and finds the module gone or at another place
C30_EntriesStay ==
  [][\A i \in 1..Len(routers) : \A e \in routers[i].preloadedHandler :
       /\ Has(routers'[i].preloadedHandler, e.ref)
       /\ Entry(routers'[i].preloadedHandler, e.ref).fullPath = e.fullPath
       /\ Entry(routers'[i].preloadedHandler, e.ref).middlewareClassName
            = e.middlewareClassName]_vars

\* a preload scanned again under /q, where the listing locates the module
\* at /q/C.js, more than 60 s after the start; the entry of "C.o" still has
\* the path /p/C.js from the preload under /p
C30_Witness ==
  /\ lastCall.op = "preload" /\ lastCall.ret = OK /\ lastCall.scanned
  /\ cwd = CwdQ /\ preloader.cwd = CwdQ
  /\ preloader.projectFiles = <<<<"r", "/", "C", ".", "j", "s">>>>
  /\ now - StartTime > 60000
  /\ Has(routers[1].preloadedHandler, RefC)
  /\ Entry(routers[1].preloadedHandler, RefC).fullPath
       = <<"/", "p", "/", "C", ".", "j", "s">>

\* the handlers of a are in b, in the same order
RECURSIVE Within(_, _)
Within(a, b) ==
  IF a = <<>> THEN TRUE
  ELSE IF b = <<>> THEN FALSE
  ELSE IF Head(a) = Head(b) THEN Within(Tail(a), Tail(b))
  ELSE Within(a, Tail(b))

\* the step keeps every key of the table of b and, in the chain of every
\* key, every handler in its order
Grows(b) ==
  \A key \in Keys(RoutesOf(routeStore, b)) :
    /\ HasKey(RoutesOf(routeStore', b), key)
    /\ Within(Chain(RoutesOf(routeStore, b), key), Chain(RoutesOf(routeStore', b), key))

\* router i makes a registration, middleware, batchMiddlewares, preload,
\* getRoutes or resolver call
CallsAny(i) ==
  \/ Get(i, PathA, <<Str(RefC)>>)
  \/ Middleware(i, <<Fn3>>)
  \/ BatchMiddlewares(i, <<Fn3>>, <<KeyGetA>>)
  \/ Preload(i)
  \/ GetRoutes(i)
  \/ Resolver(i, Str(RefC))

\* C31: chains only grow: a step that removes a key from a table, removes a
\* handler from a chain or changes the order of the handlers of a chain is
\* no registration, middleware, batchMiddlewares, getRoutes, preload or
\* resolver call; it is the construction of a Router
C31_ChainsOnlyGrow ==
  [][\A b \in BasePaths :
       ~Grows(b) =>
         /\ \A i \in 1..Len(routers) : ~CallsAny(i)
         /\ Create(b)]_vars

\* two registrations appended "C.o" twice to the chain of get::/a and a
\* middleware call put fn3 in front of it
C31_Witness ==
  /\ lastCall.op = "middleware"
  /\ Chain(RoutesOf(routeStore, BasePathRoot), KeyGetA)
       = <<Fn3, Str(RefC), Str(RefC)>>

\* the step changes a table, or something of a router other than the
\* preload cache of router i
RoutingChanged(i) ==
  \/ routeStore' # routeStore
  \/ Len(routers') # Len(routers)
  \/ \E j \in 1..Len(routers) :
       \/ routers'[j].lastMountedRouteKey # routers[j].lastMountedRouteKey
       \/ routers'[j].basePath # routers[j].basePath
       \/ routers'[j].fullPreload # routers[j].fullPreload
       \/ j # i /\ routers'[j].preloadedHandler # routers[j].preloadedHandler

\* C32: getRoutes() and preload, whether they return or throw, leave every
\* table and the last mounted key of every router as they were; they
\* change at most the preloader state and the cache of the calling router
C32_PreloadReadsRoutes ==
  [][\A i \in 1..Len(routers) :
       RoutingChanged(i) => ~(Preload(i) \/ GetRoutes(i))]_vars

\* getRoutes scanned, stored the entry of "C.o" and failed on "D"; the
\* chain of get::/a and the last mounted key are the ones registered
C32_Witness ==
  /\ lastCall.op = "getRoutes" /\ lastCall.ret = ModuleNotFoundError
  /\ lastCall.ref = RefD /\ lastCall.scanned
  /\ preloader.lastScan = now /\ preloader.projectFiles # <<>>
  /\ Has(routers[1].preloadedHandler, RefC)
  /\ routers[1].lastMountedRouteKey = KeyGetA
  /\ Chain(RoutesOf(routeStore, BasePathRoot), KeyGetA) = <<Str(RefC), Str(RefD)>>

====
